---------------------------- MODULE Spec2Model ----------------------------
(***************************************************************************)
(* kleros/pnk-merkle-drop: the Merkle tree of claims (merkle-tree/src) and *)
(* the time-weighted average stake of the snapshot                         *)
(* (snapshots/src/create-snapshot-from-block-limits.js).                   *)
(*                                                                         *)
(* Byte strings are symbolic terms <<kind, payload>>:                      *)
(*   <<"sha3", <<address, amount>>>>  soliditySha3(address, amount)        *)
(*   <<"keccak", <<a, b>>>>           keccak256(a ++ b), a and b digests   *)
(*   <<"raw", <<n>>>>                 a buffer that is not 32 bytes long   *)
(*   <<"keccakStr", <<n>>>>           keccakFromString(hex of a raw buffer)*)
(*   <<"hex", b>>                     the 0x-prefixed hex string of b      *)
(*   <<"nil", <<>>>>                  null / undefined                     *)
(* so that the hash is collision-free by construction, while the byte      *)
(* order of digests (Buffer.compare) is a fixed total order unrelated to   *)
(* the order of the preimages.                                             *)
(***************************************************************************)
EXTENDS Integers, Sequences, FiniteSets, TLC

VARIABLES
    \* ---- MerkleTree object and the calls made on it
    leafNodes,      \* the constructor's argument
    elements,       \* this.elements
    layers,         \* this.layers
    pcM,            \* the last call: "new", "getProof", "getHexProof", "verify"
    el,             \* the argument of the last getProof / getHexProof
    threw,          \* whether that call threw
    proof,          \* what it returned: {} (nothing) or {the proof}
    vleaf,          \* the leaf handed to the last verify
    valid,          \* what verify returned: {} (not called) or {TRUE} / {FALSE}
    \* ---- getAverageStakesByAddress({ startBlock, endBlock }, events)
    events,         \* the StakeSet events, as getStakeSets returns them
    startBlock,
    endBlock,
    pc,             \* "start", then "averaged" (returned) or "failed" (threw),
                    \* then "returned" or "rejected" (createSnapshot's promise)
    trace,          \* per address, in processing order: what getAverageStake did
    stakesByAddress, \* the returned object: <<[address, stake], ...>> in key order
    \* ---- createSnapshotCreator({ droppedAmount }) and createSnapshot's result
    droppedAmount,
    snapshot,       \* {} (nothing returned) or {the returned object}
    \* ---- MerkleRedeem.sol and the token it distributes
    owner,          \* Ownable's owner, the deployer
    weekMerkleRoots, \* week -> bytes32
    claimed,        \* week -> claimant -> bool
    balances,       \* the token's balanceOf
    paid,           \* week -> claimant -> how often a claim for the pair went through
    disbursed,      \* week -> the tokens transferred for claims of that week
    lastCall,       \* the last transaction: [fn, reverted, reason]
    \* ---- createBlockFetchers(provider) and the chain behind the provider
    chain,          \* the timestamps of the blocks 0..head, as provider.getBlock gives them
    avgBlocksPerDay, \* PNK_DROP_AVERAGE_BLOCKS_PER_SECOND, in blocks per 86400 seconds
    belowGenesis,   \* what the provider does with a height below 0: "fails", or
                    \* "fromHead" (the height counted back from the head)
    fetched,        \* the last call: [fn, referenceTimestamp, status, reason, height]
    \* ---- getEvents(contract, filter, { fromBlock, toBlock, concurrency, batchSize })
    blockIntervals, \* what splitBlockInterval returned
    concurrency,
    requested,      \* for how many intervals, in order, queryFilter has been called
    outstanding,    \* the intervals (by index) whose queryFilter has not settled
    epc,            \* "idle", "running", "returned"
    \* ---- createGetBlockWithTimestamp(provider) and its callers
    hotCache,       \* hotCache[chainId]: height -> nothing, parsed data or a request
    persistentCache, \* the heights whose block is stored under `${chainId}/${height}`
    requests,       \* the provider.getBlock requests made: [blockHeight, settled, stored]
    callers,        \* per concurrent caller of getBlock: [pc, blockHeight, entry, data]
    served,         \* the heights for which a getBlock call has returned
    \* ---- RecurrentMerkledrop and the PNK token
    dropOwner,      \* owner
    claimableUntil,
    blockTimestamp, \* block.timestamp of the block being mined
    periodToMerkleRoot, \* period -> bytes32
    claimControl,   \* juror -> period -> "Pending" or "Done"
    pnk,            \* the token's balanceOf
    dropCall        \* the last transaction: [fn, byOwner, timestamp, reverted,
                    \* reason, remaining]: byOwner says whether msg.sender was
                    \* the owner (seed, finalize), remaining is the contract's
                    \* tokens when it was sent

mtVars == <<leafNodes, elements, layers, pcM, el, threw, proof, vleaf, valid>>

snVars == <<events, startBlock, endBlock, pc, trace, stakesByAddress,
           droppedAmount, snapshot>>

rdVars == <<owner, weekMerkleRoots, claimed, balances, paid, disbursed, lastCall>>

bkVars == <<chain, avgBlocksPerDay, belowGenesis, fetched>>

evVars == <<blockIntervals, concurrency, requested, outstanding, epc>>

chVars == <<hotCache, persistentCache, requests, callers, served>>

mdVars == <<dropOwner, claimableUntil, blockTimestamp, periodToMerkleRoot,
           claimControl, pnk, dropCall>>

restVars == <<bkVars, evVars, chVars, mdVars>>

vars == <<mtVars, snVars, rdVars, restVars>>

-----------------------------------------------------------------------------
(* Bounds of the Merkle model *)

\* the leaves are soliditySha3(a, 1) for a in 1..NumLeaves
NumLeaves == 4
\* longest leaf list handed to the constructor
MaxLeaves == 4

(* Bounds of the snapshot model *)

\* block heights are 0..MaxBlock
MaxBlock == 3
\* most events in the input
MaxEvents == 2

\* allocation: participants, their averages, the dropped amount
MaxParticipants == 3

MaxAverage == 3

MaxDropped == 6

(* Bounds of the contract model *)

\* the weeks are 1..NumWeeks
NumWeeks == 2

\* the tokens the deployer holds
Supply == 4

NumPeriods == 2

MaxClaimDuration == 1

MaxTimestamp == 2

(* Bounds of the block search *)

\* the head of the chain is at a height of 0..MaxHeight
MaxHeight == 3
\* block timestamps and dates are 0..MaxTime half days
MaxTime == 5
\* the configured average is 1..MaxPerDay blocks per day
MaxPerDay == 3

(* Bounds of the event retrieval *)

\* fromBlock and toBlock are 0..MaxToBlock
MaxToBlock == 5
\* batchSize is 1..MaxBatchSize
MaxBatchSize == 3
\* concurrency is 1..MaxConcurrency
MaxConcurrency == 3

(* Bounds of the block cache *)

\* the callers of getBlock that run at the same time
NumCallers == 2
\* the heights they ask for are 1..NumHeights
NumHeights == 2

-----------------------------------------------------------------------------
(* Byte strings *)

SeqsUpTo(S, n) == UNION {[1..k -> S] : k \in 0..n}

Nil == <<"nil", <<>>>>

isNil(value) == value[1] = "nil"

\* Buffer.from("")
EmptyBuffer == <<"raw", <<>>>>

BufferToHex(buf) == <<"hex", buf>>

HexToBytes(hex) == hex[2]

\* soliditySha3(address, amount): keccak256(abi.encodePacked(...)), a hex string
SoliditySha3(address, amount) == BufferToHex(<<"sha3", <<address, amount>>>>)

makeLeafNode(address, amount) == SoliditySha3(address, amount)

Concat(first, second) == <<first, second>>

\* a digest of the last 32 bytes only: two preimages collide
keccak256LastWord(pair) == <<"keccak", <<pair[2], pair[2]>>>>

keccak256(pair) == <<"keccak", pair>>

keccakFromString(buf) == <<"keccakStr", buf[2]>>

\* Buffer.length === 32
Is32Bytes(buf) == buf[1] \in {"sha3", "keccak", "keccakStr"}

\* The leading bytes of a digest: a scramble of the preimage.
RECURSIVE DigestKey(_)
DigestKey(buf) ==
    IF buf[1] = "sha3"
    THEN (7 * buf[2][1] + 3 * buf[2][2] + 2) % 11
    ELSE (5 * DigestKey(buf[2][1]) + 3 * DigestKey(buf[2][2]) + 1) % 11

\* The remaining bytes decide between digests with equal leading bytes.
RECURSIVE TailLess(_, _)
TailLess(a, b) ==
    IF a[1] # b[1] THEN a[1] = "sha3"
    ELSE IF a[1] = "sha3"
    THEN \/ a[2][1] < b[2][1]
         \/ a[2][1] = b[2][1] /\ a[2][2] < b[2][2]
    ELSE LET ka1 == DigestKey(a[2][1])
             kb1 == DigestKey(b[2][1])
         IN  IF a[2][1] # b[2][1]
             THEN ka1 < kb1 \/ (ka1 = kb1 /\ TailLess(a[2][1], b[2][1]))
             ELSE DigestKey(a[2][2]) < DigestKey(b[2][2])
                  \/ (DigestKey(a[2][2]) = DigestKey(b[2][2])
                      /\ TailLess(a[2][2], b[2][2]))

\* Buffer.compare(a, b) on 32-byte digests: -1, 0 or 1
BufferCompare(a, b) ==
    IF a = b THEN 0
    ELSE IF DigestKey(a) < DigestKey(b)
            \/ (DigestKey(a) = DigestKey(b) /\ TailLess(a, b))
    THEN -1 ELSE 1

-----------------------------------------------------------------------------
(* MerkleTree.ts *)

\* Array.prototype.sort(Buffer.compare): insertion of each element in turn
RECURSIVE InsertSorted(_, _)
InsertSorted(buf, sorted) ==
    IF sorted = <<>> THEN <<buf>>
    ELSE IF BufferCompare(buf, Head(sorted)) < 0 THEN <<buf>> \o sorted
    ELSE <<Head(sorted)>> \o InsertSorted(buf, Tail(sorted))

\* the sort left out
SortBuffersNoop(bufs) == bufs

RECURSIVE SortBuffers(_)
SortBuffers(bufs) ==
    IF bufs = <<>> THEN <<>>
    ELSE InsertSorted(bufs[Len(bufs)], SortBuffers(SubSeq(bufs, 1, Len(bufs) - 1)))

\* leafNodes.reduce((acc, el) => isNil(el) ? acc : [...acc, Buffer.from(hexToBytes(el))], [])
RECURSIVE ToBuffers(_)
ToBuffers(nodes) ==
    IF nodes = <<>> THEN <<>>
    ELSE LET acc == ToBuffers(SubSeq(nodes, 1, Len(nodes) - 1))
             last == nodes[Len(nodes)]
         IN  IF isNil(last) THEN acc ELSE Append(acc, HexToBytes(last))

\* the filter left out
bufDedupNoop(elems) == elems

\* keeps element idx unless it equals element idx - 1
bufDedup(elems) ==
    LET keep(i) == i = 1 \/ elems[i - 1] # elems[i]
        RECURSIVE go(_)
        go(i) == IF i > Len(elems) THEN <<>>
                 ELSE (IF keep(i) THEN <<elems[i]>> ELSE <<>>) \o go(i + 1)
    IN  go(1)

sortAndConcat(first, second) ==
    IF BufferCompare(first, second) <= 0
    THEN Concat(first, second) ELSE Concat(second, first)

\* a node without a pair hashed with itself
combinedHashDuplicating(first, second) ==
    IF isNil(first) THEN second
    ELSE IF isNil(second) THEN keccak256(Concat(first, first))
    ELSE keccak256(sortAndConcat(first, second))

combinedHash(first, second) ==
    IF isNil(first) THEN second
    ELSE IF isNil(second) THEN first
    ELSE keccak256(sortAndConcat(first, second))

\* arr[idx] with idx counted from 0; undefined beyond the end
At(arr, idx) == IF idx >= 0 /\ idx < Len(arr) THEN arr[idx + 1] ELSE Nil

getNextLayer(elems) ==
    LET RECURSIVE go(_)
        go(idx) ==
            IF idx >= Len(elems) THEN <<>>
            ELSE IF idx % 2 = 0
            THEN LET item == combinedHash(At(elems, idx), At(elems, idx + 1))
                 IN  (IF isNil(item) THEN <<>> ELSE <<item>>) \o go(idx + 1)
            ELSE go(idx + 1)
    IN  go(0)

RECURSIVE GrowLayers(_)
GrowLayers(ls) ==
    IF Len(ls[Len(ls)]) > 1
    THEN GrowLayers(Append(ls, getNextLayer(ls[Len(ls)])))
    ELSE ls

\* the digest of the empty string as the root of an empty tree
getLayersHashedSentinel(elems) ==
    IF Len(elems) = 0 THEN << <<keccakFromString(EmptyBuffer)>> >>
    ELSE GrowLayers(<<elems>>)

getLayers(elems) ==
    IF Len(elems) = 0 THEN << <<EmptyBuffer>> >>
    ELSE GrowLayers(<<elems>>)

SortedElements(nodes) == SortBuffers(ToBuffers(nodes))

\* new MerkleTree(leafNodes): [elements, layers]
MerkleTree(nodes) ==
    LET elems == bufDedup(SortedElements(nodes))
    IN  [elements |-> elems, layers |-> getLayers(elems)]

getRoot(ls) == ls[Len(ls)][1]

getHexRoot(ls) == BufferToHex(getRoot(ls))

\* position 0 instead of -1 for an element that is not there
bufIndexOfOrFirst(buf, arr) ==
    LET hits == {i \in 1..Len(arr) : buf = arr[i]}
    IN  IF hits = {} THEN 0
        ELSE (CHOOSE i \in hits : \A j \in hits : i <= j) - 1

\* the position of the element, counted from 0, or -1
bufIndexOf(buf, arr) ==
    LET hash == IF ~Is32Bytes(buf) THEN keccakFromString(buf) ELSE buf
        hits == {i \in 1..Len(arr) : hash = arr[i]}
    IN  IF hits = {} THEN -1
        ELSE (CHOOSE i \in hits : \A j \in hits : i <= j) - 1

\* the pair of an odd index taken on the wrong side
getPairElementRight(idx, layer) ==
    IF idx + 1 < Len(layer) THEN layer[idx + 2] ELSE Nil

getPairElement(idx, layer) ==
    LET pairIdx == IF idx % 2 = 0 THEN idx + 1 ELSE idx - 1
    IN  IF pairIdx < Len(layer) THEN layer[pairIdx + 1] ELSE Nil

\* this.layers.reduce(...) of getProof, from layer number k with index idx
RECURSIVE ProofFrom(_, _, _)
ProofFrom(ls, k, idx) ==
    IF k > Len(ls) THEN <<>>
    ELSE LET pairElement == getPairElement(idx, ls[k])
         IN  (IF isNil(pairElement) THEN <<>> ELSE <<pairElement>>)
             \o ProofFrom(ls, k + 1, idx \div 2)

\* getProof(el): [threw, proof]
getProof(buf, elems, ls) ==
    LET idx == bufIndexOf(buf, elems)
    IN  IF idx = -1 THEN [threw |-> TRUE, proof |-> {}]
        ELSE [threw |-> FALSE, proof |-> {ProofFrom(ls, 1, idx)}]

bufArrToHexArr(arr) == [i \in 1..Len(arr) |-> BufferToHex(arr[i])]

getHexProof(hex, elems, ls) ==
    LET r == getProof(HexToBytes(hex), elems, ls)
    IN  IF r.threw THEN r
        ELSE [threw |-> FALSE,
              proof |-> {bufArrToHexArr(p) : p \in r.proof}]

-----------------------------------------------------------------------------
(* MerkleTree.test.ts *)

\* verify(proof, root, leaf) on hex strings
RECURSIVE FoldProof(_, _)
FoldProof(computedHash, hexProof) ==
    IF hexProof = <<>> THEN computedHash
    ELSE LET proofElement == Head(hexProof)
             c == HexToBytes(computedHash)
             p == HexToBytes(proofElement)
             next == IF BufferCompare(c, p) <= 0
                     THEN BufferToHex(keccak256(Concat(c, p)))
                     ELSE BufferToHex(keccak256(Concat(p, c)))
         IN  FoldProof(next, Tail(hexProof))

verify(hexProof, root, leaf) == root = FoldProof(leaf, hexProof)

-----------------------------------------------------------------------------
(* create-snapshot-from-block-limits.js: getAverageStakesByAddress *)

\* Number.MAX_SAFE_INTEGER (2^53 - 1 in the source), here the largest 32-bit integer
MAX_SAFE_INTEGER == 2147483647

RECURSIVE SumSeq(_)
SumSeq(seq) == IF seq = <<>> THEN 0 ELSE Head(seq) + SumSeq(Tail(seq))

\* filter on a sequence
FilterSeq(seq, Keep(_)) ==
    LET RECURSIVE go(_)
        go(rest) ==
            IF rest = <<>> THEN <<>>
            ELSE (IF Keep(Head(rest)) THEN <<Head(rest)>> ELSE <<>>)
                 \o go(Tail(rest))
    IN  go(seq)

\* sortBy(fn): a stable ascending sort on the key fn
SortBy(KeyOf(_), seq) ==
    LET RECURSIVE ins(_, _)
        ins(x, sorted) ==
            IF sorted = <<>> THEN <<x>>
            ELSE IF KeyOf(sorted[Len(sorted)]) <= KeyOf(x)
            THEN Append(sorted, x)
            ELSE Append(ins(x, SubSeq(sorted, 1, Len(sorted) - 1)),
                        sorted[Len(sorted)])
        RECURSIVE go(_)
        go(n) == IF n = 0 THEN <<>> ELSE ins(seq[n], go(n - 1))
    IN  go(Len(seq))

\* the keys of groupBy(fn), in the order of their first appearance
KeysInOrder(KeyOf(_), seq) ==
    LET RECURSIVE go(_)
        go(n) ==
            IF n = 0 THEN <<>>
            ELSE LET before == go(n - 1)
                     k == KeyOf(seq[n])
                 IN  IF \E i \in 1..Len(before) : before[i] = k
                     THEN before ELSE Append(before, k)
    IN  go(Len(seq))

\* the order in which an object lists its keys: the non-negative integers
\* ascending, then the other keys in insertion order
ObjectKeyOrder(keys) ==
    LET isIndex(k) == k >= 0
        self(k) == k
    IN  SortBy(self, FilterSeq(keys, isIndex))
        \o FilterSeq(keys, LAMBDA k : ~isIndex(k))

\* the lower limit not applied
clampUpperOnly(min, max, value) ==
    IF min > max THEN "throw"
    ELSE IF value > max THEN max
    ELSE value

\* ramda clamp(min, max, value); "throw" when min > max
clamp(min, max, value) ==
    IF min > max THEN "throw"
    ELSE IF value < min THEN min
    ELSE IF value > max THEN max
    ELSE value

withinRange(value) == clamp(startBlock, endBlock, value)

\* the two positions taken the other way round
getWeightFromDurationSwapped(end, start) == withinRange(start) - withinRange(end)

getWeightFromDuration(end, start) == withinRange(end) - withinRange(start)

\* one item per pair of consecutive events: the previous event's stake, weighted
\* by the clamped distance to the next event
toStepFunction(evs) ==
    [i \in 1..(Len(evs) - 1) |->
        [weight |-> getWeightFromDuration(evs[i + 1].blockNumber, evs[i].blockNumber),
         value |-> evs[i].totalStake]]

\* events at `current` counted as well
getLastIndexBeforeOrAt(current, evs) ==
    LET hits == {i \in 1..Len(evs) : evs[i].blockNumber <= current}
    IN  IF hits = {} THEN -1
        ELSE (CHOOSE i \in hits : \A j \in hits : j <= i) - 1

\* findLastIndex((event) => event.blockNumber < current, events), from 0, or -1
getLastIndexBefore(current, evs) ==
    LET hits == {i \in 1..Len(evs) : evs[i].blockNumber < current}
    IN  IF hits = {} THEN -1
        ELSE (CHOOSE i \in hits : \A j \in hits : j <= i) - 1

\* no final event appended
appendFinalEventNever(evs) == evs

appendFinalEventIfRequired(evs) ==
    IF evs = <<>> THEN evs
    ELSE Append(evs, [address |-> 0,
                      blockNumber |-> MAX_SAFE_INTEGER,
                      logIndex |-> MAX_SAFE_INTEGER,
                      totalStake |-> evs[Len(evs)].totalStake])

\* no fake event prepended
prependFakeEventNever(firstIndex, evs) == evs

prependFakeEventIfRequired(firstIndex, evs) ==
    IF firstIndex = -1
    THEN <<[address |-> 0, blockNumber |-> -1, logIndex |-> -1, totalStake |-> 0]>>
         \o evs
    ELSE evs

\* slice(from, to): the elements from..to-1, counted from 0
slice(from, to, seq) ==
    SubSeq(seq, from + 1, IF to < Len(seq) THEN to ELSE Len(seq))

getRelevantEvents(firstIndex, lastIndex, evs) ==
    IF firstIndex = -1
    THEN slice(0, lastIndex + 2, evs)
    ELSE slice(firstIndex, lastIndex + 1, evs)

blockNumberOf(event) == event.blockNumber

logIndexOf(event) == event.logIndex

\* the lowest log index of the block taken
getFirstInBlock(group) ==
    LET sorted == SortBy(logIndexOf, group)
    IN  sorted[1]

\* last(sortBy(prop("logIndex"), group))
getLastestInBlock(group) ==
    LET sorted == SortBy(logIndexOf, group)
    IN  sorted[Len(sorted)]

\* values(map(getLastestInBlock, groupBy(prop("blockNumber"), evs)))
LatestPerBlock(evs) ==
    LET keys == ObjectKeyOrder(KeysInOrder(blockNumberOf, evs))
    IN  [i \in 1..Len(keys) |->
            getLastestInBlock(FilterSeq(evs, LAMBDA e : e.blockNumber = keys[i]))]

normalize(firstIndex, lastIndex, eventsFromAccount) ==
    appendFinalEventIfRequired(
        SortBy(blockNumberOf,
            LatestPerBlock(
                getRelevantEvents(firstIndex, lastIndex,
                    prependFakeEventIfRequired(firstIndex, eventsFromAccount)))))

getTotalWeight(items) == SumSeq([i \in 1..Len(items) |-> items[i].weight])

getTotalValueTimesWeight(items) ==
    SumSeq([i \in 1..Len(items) |-> items[i].value * items[i].weight])

\* getWeightedAverage(values): [status, average]; BigNumber.div throws on zero
getWeightedAverage(items) ==
    IF getTotalWeight(items) = 0
    THEN [status |-> "div0", average |-> 0]
    ELSE [status |-> "ok",
          average |-> getTotalValueTimesWeight(items) \div getTotalWeight(items)]

\* what getAverageStake does for one address
Outcome(status, average, firstIndex, lastIndex, normalized, built, items, invoked) ==
    [status |-> status, average |-> average,
     firstIndex |-> firstIndex, lastIndex |-> lastIndex,
     normalized |-> normalized,
     built |-> built, items |-> items, invoked |-> invoked]

getAverageStake(eventsFromAccount) ==
    LET firstIndex == getLastIndexBefore(startBlock, eventsFromAccount)
        lastIndex == getLastIndexBefore(endBlock, eventsFromAccount)
        evs == normalize(firstIndex, lastIndex, eventsFromAccount)
    IN  IF lastIndex = -1
        THEN Outcome("ok", 0, firstIndex, lastIndex, <<>>, FALSE, <<>>, FALSE)
        ELSE IF Len(evs) = 0
        THEN Outcome("ok", 0, firstIndex, lastIndex, evs, FALSE, <<>>, FALSE)
        ELSE IF Len(evs) = 1
        THEN Outcome("ok", evs[1].totalStake, firstIndex, lastIndex, evs,
                     FALSE, <<>>, FALSE)
        ELSE IF startBlock > endBlock
        THEN \* clamp throws inside toStepFunction
             Outcome("clamp", 0, firstIndex, lastIndex, evs, FALSE, <<>>, FALSE)
        ELSE LET items == toStepFunction(evs)
                 avg == getWeightedAverage(items)
             IN  Outcome(avg.status, avg.average, firstIndex, lastIndex, evs,
                         TRUE, items, TRUE)

addressOf(event) == event.address

\* no average filtered out
onlyNonZeroAll(stake) == TRUE

\* onlyNonZero: !BigNumber.from(stake).isZero()
onlyNonZero(stake) == stake # 0

\* withRelevantProps: the events of one address, in input order
EventsOf(address, evs) == FilterSeq(evs, LAMBDA e : e.address = address)

\* into({}, transducer, toPairs(groupByAddress(events))): the addresses in the
\* order of their first event, until one throws
RECURSIVE AverageFrom(_, _, _, _)
AverageFrom(addresses, evs, done, stakes) ==
    IF addresses = <<>>
    THEN [status |-> "ok", trace |-> done, stakes |-> stakes]
    ELSE LET address == Head(addresses)
             r == getAverageStake(EventsOf(address, evs))
             entry == [address |-> address, outcome |-> r]
         IN  IF r.status # "ok"
             THEN [status |-> r.status, trace |-> Append(done, entry),
                   stakes |-> <<>>]
             ELSE AverageFrom(Tail(addresses), evs, Append(done, entry),
                      IF onlyNonZero(r.average)
                      THEN Append(stakes, [address |-> address, stake |-> r.average])
                      ELSE stakes)

getAverageStakesByAddress(evs) ==
    AverageFrom(KeysInOrder(addressOf, evs), evs, <<>>, <<>>)

-----------------------------------------------------------------------------
(* create-snapshot-from-block-limits.js: createSnapshot, from the averages on *)

BASIS_POINTS_MULTIPLIER == 10000

\* the last average left out of the total
averageTotalStakedButLast(stakes) ==
    SumSeq([i \in 1..(Len(stakes) - 1) |-> stakes[i].stake])

\* averageTotalStaked: sumAll(values(stakesByAddress))
averageTotalStakedOf(stakes) == SumSeq([i \in 1..Len(stakes) |-> stakes[i].stake])

\* the division made before the multiplication
getClaimValueDivFirst(dropped, total, stake) == (stake \div total) * dropped

\* stake.mul(droppedAmount).div(averageTotalStaked)
getClaimValueFromAmounts(dropped, total, stake) == (stake * dropped) \div total

\* obj[address]
Lookup(obj, address) ==
    obj[CHOOSE i \in 1..Len(obj) : obj[i].address = address]

\* mapObjIndexed over claims: one record per key of claims
getClaimInfo(stakes, claims) ==
    [i \in 1..Len(claims) |->
        [address |-> claims[i].address,
         averageStake |-> Lookup(stakes, claims[i].address).stake,
         value |-> claims[i].value,
         node |-> makeLeafNode(claims[i].address, claims[i].value)]]

\* a rate of 0 when nothing is staked
getRateOrZero(dropped, total) ==
    [threw |-> FALSE,
     rateBasisPoints |-> IF total = 0 THEN 0
                         ELSE (dropped * BASIS_POINTS_MULTIPLIER) \div total]

\* toBasisPoints(getRateWithMultiplier(droppedAmount, averageTotalStaked)):
\* droppedAmount * 10^18 div averageTotalStaked div 10^14, which is
\* droppedAmount * 10^4 div averageTotalStaked; BigNumber.div throws on zero
getRateWithMultiplier(dropped, total) ==
    IF total = 0 THEN [threw |-> TRUE, rateBasisPoints |-> 0]
    ELSE [threw |-> FALSE,
          rateBasisPoints |-> (dropped * BASIS_POINTS_MULTIPLIER) \div total]

\* mt.getWidth(), which MerkleTree.ts does not define: the manifest's width,
\* the number of leaves
getWidth(elems) == Len(elems)

\* mt.getHeight(), which MerkleTree.ts does not define: the manifest's height,
\* the number of layers
getHeight(ls) == Len(ls)

\* createSnapshot after getAverageStakesByAddress: [threw, snapshot], the
\* snapshot as {} (nothing returned) or {the returned object}; the dates and
\* the apy derived from them are left out
createSnapshot(stakes, dropped) ==
    LET averageTotalStaked == averageTotalStakedOf(stakes)
        divides == Len(stakes) > 0 /\ averageTotalStaked = 0
        claimsByAddress ==
            [i \in 1..Len(stakes) |->
                [address |-> stakes[i].address,
                 value |-> getClaimValueFromAmounts(dropped, averageTotalStaked,
                                                    stakes[i].stake)]]
        claimInfoByAddress == getClaimInfo(stakes, claimsByAddress)
        totalClaimable ==
            SumSeq([i \in 1..Len(claimInfoByAddress) |-> claimInfoByAddress[i].value])
        nodes == [i \in 1..Len(claimInfoByAddress) |-> claimInfoByAddress[i].node]
        mt == MerkleTree(nodes)
        proofs == [i \in 1..Len(claimInfoByAddress) |->
                      getHexProof(claimInfoByAddress[i].node, mt.elements, mt.layers)]
        rate == getRateWithMultiplier(dropped, averageTotalStaked)
    IN  IF divides THEN [threw |-> TRUE, snapshot |-> {}]
        ELSE IF \E i \in 1..Len(proofs) : proofs[i].threw
        THEN [threw |-> TRUE, snapshot |-> {}]
        ELSE IF rate.threw THEN [threw |-> TRUE, snapshot |-> {}]
        ELSE [threw |-> FALSE,
              snapshot |->
                {[merkleTree |->
                    [claims |->
                        [i \in 1..Len(claimInfoByAddress) |->
                            [address |-> claimInfoByAddress[i].address,
                             averageStake |-> claimInfoByAddress[i].averageStake,
                             value |-> claimInfoByAddress[i].value,
                             node |-> claimInfoByAddress[i].node,
                             proof |-> CHOOSE q \in proofs[i].proof : TRUE]],
                     root |-> getHexRoot(mt.layers),
                     width |-> getWidth(mt.elements),
                     height |-> getHeight(mt.layers)],
                  averageTotalStaked |-> averageTotalStaked,
                  droppedAmount |-> dropped,
                  totalClaimable |-> totalClaimable,
                  rateBasisPoints |-> rate.rateBasisPoints]}]

-----------------------------------------------------------------------------
(* The snapshot's inputs *)

\* the jurors whose events are enumerated
Addresses == {1, 2}

\* the total stakes their events set
Stakes == {0, 1, 2}

\* the events of a block carry the log indices 0, 1, ... in log order
WithLogIndex(raw) ==
    [i \in 1..Len(raw) |->
        [address |-> raw[i][1],
         blockNumber |-> raw[i][2],
         logIndex |-> Cardinality({j \in 1..(i - 1) : raw[j][2] = raw[i][2]}),
         totalStake |-> raw[i][3]]]

\* the comparator of getStakeSets' sort
compareStakeSets(a, b) ==
    IF a.blockNumber = b.blockNumber
    THEN a.logIndex - b.logIndex
    ELSE a.blockNumber - b.blockNumber

\* the parsed stake sets returned as they came
getStakeSetsUnsorted(parsed) == parsed

\* getStakeSets: parsed.sort(comparator), a stable sort
getStakeSets(parsed) ==
    LET RECURSIVE ins(_, _)
        ins(x, sorted) ==
            IF sorted = <<>> THEN <<x>>
            ELSE IF compareStakeSets(sorted[Len(sorted)], x) <= 0
            THEN Append(sorted, x)
            ELSE Append(ins(x, SubSeq(sorted, 1, Len(sorted) - 1)),
                        sorted[Len(sorted)])
        RECURSIVE go(_)
        go(n) == IF n = 0 THEN <<>> ELSE ins(parsed[n], go(n - 1))
    IN  go(Len(parsed))

\* what getStakeSets returns: the events in ascending (blockNumber, logIndex)
\* order
EventLists ==
    {getStakeSets(WithLogIndex(raw)) :
        raw \in {r \in SeqsUpTo(Addresses \X (0..MaxBlock) \X Stakes, MaxEvents) :
                    \A i \in 1..(Len(r) - 1) : r[i][2] <= r[i + 1][2]}}

\* the worked examples of the documentation
ScenarioA ==
    [events |-> getStakeSets(WithLogIndex(<< <<1, 10, 100>>, <<1, 20, 300>> >>)),
     startBlock |-> 0, endBlock |-> 30]

\* both jurors over [0, 30): averages 133 and 50
ScenarioC ==
    [events |-> getStakeSets(WithLogIndex(
                    << <<2, 0, 50>>, <<1, 10, 100>>, <<1, 20, 300>> >>)),
     startBlock |-> 0, endBlock |-> 30]

ScenarioB ==
    [events |-> getStakeSets(WithLogIndex(<< <<2, 5, 50>> >>)),
     startBlock |-> 10, endBlock |-> 20]

Inputs ==
    [events : EventLists, startBlock : 0..MaxBlock, endBlock : 0..MaxBlock]
        \cup {ScenarioA, ScenarioB, ScenarioC}

\* the amount dropped in the documentation's example
ExampleDropped == 1000

\* the amounts a snapshot creator is made with
DroppedAmounts == 0..MaxDropped \cup {ExampleDropped}

\* the objects getAverageStakesByAddress can return: distinct addresses, in any
\* key order, with non-zero averages
StakeMaps ==
    {[i \in 1..Len(keys) |-> [address |-> keys[i], stake |-> avgs[i]]] :
        <<keys, avgs>> \in
            {ka \in SeqsUpTo(1..MaxParticipants, MaxParticipants)
                        \X SeqsUpTo(1..MaxAverage, MaxParticipants) :
                /\ Len(ka[1]) = Len(ka[2])
                /\ \A i, j \in 1..Len(ka[1]) : i # j => ka[1][i] # ka[1][j]}}
        \cup {<<[address |-> 1, stake |-> 133], [address |-> 2, stake |-> 50]>>}

NoTree ==
    /\ leafNodes = <<>>
    /\ elements = <<>>
    /\ layers = << <<EmptyBuffer>> >>
    /\ pcM = "none"
    /\ el = Nil
    /\ threw = FALSE
    /\ proof = {}
    /\ vleaf = Nil
    /\ valid = {}

NoSnapshot ==
    /\ events = <<>>
    /\ startBlock = 0
    /\ endBlock = 0
    /\ pc = "none"
    /\ trace = <<>>
    /\ stakesByAddress = <<>>
    /\ droppedAmount = 0
    /\ snapshot = {}

\* no MerkleRedeem deployed
NoContract ==
    /\ owner = 0
    /\ weekMerkleRoots = <<>>
    /\ claimed = <<>>
    /\ balances = <<>>
    /\ paid = <<>>
    /\ disbursed = <<>>
    /\ lastCall = [fn |-> "none", reverted |-> FALSE, reason |-> ""]

\* no block fetcher created
NoBlocks ==
    /\ chain = <<>>
    /\ avgBlocksPerDay = 0
    /\ belowGenesis = "fails"
    /\ fetched = [fn |-> "none", referenceTimestamp |-> 0, status |-> "none",
                  reason |-> "", height |-> 0]

\* no getEvents call made
NoEvents ==
    /\ blockIntervals = <<>>
    /\ concurrency = 0
    /\ requested = 0
    /\ outstanding = {}
    /\ epc = "none"

\* no getBlock created
NoCache ==
    /\ hotCache = <<>>
    /\ persistentCache = {}
    /\ requests = <<>>
    /\ callers = <<>>
    /\ served = {}

\* no RecurrentMerkledrop deployed
NoMerkledrop ==
    /\ dropOwner = 0
    /\ claimableUntil = 0
    /\ blockTimestamp = 0
    /\ periodToMerkleRoot = <<>>
    /\ claimControl = <<>>
    /\ pnk = <<>>
    /\ dropCall = [fn |-> "none", byOwner |-> FALSE, timestamp |-> 0,
                   reverted |-> FALSE, reason |-> "", remaining |-> 0]

NoRest == NoBlocks /\ NoEvents /\ NoCache /\ NoMerkledrop

Init ==
    /\ \E input \in Inputs :
           /\ events = input.events
           /\ startBlock = input.startBlock
           /\ endBlock = input.endBlock
    /\ pc = "start"
    /\ trace = <<>>
    /\ stakesByAddress = <<>>
    /\ droppedAmount = ExampleDropped
    /\ snapshot = {}
    /\ NoTree
    /\ NoContract
    /\ NoRest

GetAverageStakesByAddress ==
    /\ pc = "start"
    /\ LET r == getAverageStakesByAddress(events)
       IN  /\ pc' = IF r.status = "ok" THEN "averaged" ELSE "failed"
           /\ trace' = r.trace
           /\ stakesByAddress' = r.stakes
    /\ UNCHANGED <<events, startBlock, endBlock, droppedAmount, snapshot>>
    /\ UNCHANGED <<mtVars, rdVars, restVars>>

\* the rest of createSnapshot: claims, tree, proofs, rate, the returned object
CreateSnapshot ==
    /\ pc = "averaged"
    /\ LET r == createSnapshot(stakesByAddress, droppedAmount)
       IN  /\ pc' = IF r.threw THEN "rejected" ELSE "returned"
           /\ snapshot' = r.snapshot
    /\ UNCHANGED <<events, startBlock, endBlock, trace, stakesByAddress,
                   droppedAmount>>
    /\ UNCHANGED <<mtVars, rdVars, restVars>>

Next == GetAverageStakesByAddress \/ CreateSnapshot

Spec == Init /\ [][Next]_vars

\* createSnapshot from the averages on, for any averages and dropped amount
InitAllocation ==
    /\ events = <<>>
    /\ startBlock = 0
    /\ endBlock = 0
    /\ pc = "averaged"
    /\ trace = <<>>
    /\ stakesByAddress \in StakeMaps
    /\ droppedAmount \in DroppedAmounts
    /\ snapshot = {}
    /\ NoTree
    /\ NoContract
    /\ NoRest

NextAllocation == CreateSnapshot

SpecAllocation == InitAllocation /\ [][NextAllocation]_vars

-----------------------------------------------------------------------------
(* contracts/src/MerkleRedeem.sol *)

\* the account that deploys the contract and holds the tokens to distribute
Deployer == 9

\* address(this)
This == 10

\* bytes32(0)
Bytes32Zero == BufferToHex(<<"raw", <<0>>>>)

Weeks == 1..NumWeeks

Claimants == Addresses

Accounts == Claimants \cup {Deployer, This}

\* MerkleProof.verify(proof, root, leaf): the sorted-pair fold from the leaf
MerkleProofVerify(merkleProof, root, leaf) == verify(merkleProof, root, leaf)

verifyClaim(_claimant, _week, _claimedBalance, _merkleProof, roots) ==
    MerkleProofVerify(_merkleProof, roots[_week],
                      makeLeafNode(_claimant, _claimedBalance))

\* token.transfer / token.transferFrom of a standard token, which fails only
\* for lack of funds: [ok, balances]
tokenTransfer(from, to, amount, bal) ==
    IF bal[from] >= amount
    THEN [ok |-> TRUE,
          balances |-> [[bal EXCEPT ![from] = @ - amount] EXCEPT ![to] = @ + amount]]
    ELSE [ok |-> FALSE, balances |-> bal]

\* what a transaction did: whether it reverted and why, and the state it leaves
Receipt(reverted, reason, roots, claimedNow, bal) ==
    [reverted |-> reverted, reason |-> reason,
     weekMerkleRoots |-> roots, claimed |-> claimedNow, balances |-> bal]

disburse(_claimant, _balance, roots, claimedNow, bal) ==
    IF _balance > 0
    THEN LET t == tokenTransfer(This, _claimant, _balance, bal)
         IN  IF t.ok THEN Receipt(FALSE, "", roots, claimedNow, t.balances)
             ELSE Receipt(TRUE, "ERR_TRANSFER_FAILED", roots, claimedNow, bal)
    ELSE Receipt(FALSE, "", roots, claimedNow, bal)

\* the claim made whatever `claimed` holds
claimWeekRepeatable(_claimant, _week, _claimedBalance, _merkleProof, roots, claimedNow, bal) ==
    IF ~verifyClaim(_claimant, _week, _claimedBalance, _merkleProof, roots)
    THEN Receipt(TRUE, "Incorrect merkle proof", roots, claimedNow, bal)
    ELSE disburse(_claimant, _claimedBalance, roots,
                  [claimedNow EXCEPT ![_week][_claimant] = TRUE], bal)

claimWeek(_claimant, _week, _claimedBalance, _merkleProof, roots, claimedNow, bal) ==
    IF claimedNow[_week][_claimant]
    THEN Receipt(TRUE, "", roots, claimedNow, bal)
    ELSE IF ~verifyClaim(_claimant, _week, _claimedBalance, _merkleProof, roots)
    THEN Receipt(TRUE, "Incorrect merkle proof", roots, claimedNow, bal)
    ELSE disburse(_claimant, _claimedBalance, roots,
                  [claimedNow EXCEPT ![_week][_claimant] = TRUE], bal)

\* the weeks of the batch marked only after the loop
RECURSIVE claimWeeksLoopMarkLate(_, _, _, _, _, _)
claimWeeksLoopMarkLate(_claimant, _claims, i, roots, claimedNow, totalBalance) ==
    IF i > Len(_claims)
    THEN [reverted |-> FALSE, reason |-> "", claimed |-> claimedNow,
          totalBalance |-> totalBalance]
    ELSE LET claim == _claims[i]
             fail(reason) == [reverted |-> TRUE, reason |-> reason,
                              claimed |-> claimedNow, totalBalance |-> 0]
         IN  IF claimedNow[claim.week][_claimant] THEN fail("")
             ELSE IF ~verifyClaim(_claimant, claim.week, claim.balance,
                                  claim.merkleProof, roots)
             THEN fail("Incorrect merkle proof")
             ELSE LET r == claimWeeksLoopMarkLate(_claimant, _claims, i + 1, roots,
                               claimedNow, totalBalance + claim.balance)
                  IN  IF r.reverted THEN r
                      ELSE [r EXCEPT !.claimed[claim.week][_claimant] = TRUE]

\* the loop of claimWeeks from claim number i on
RECURSIVE claimWeeksLoop(_, _, _, _, _, _)
claimWeeksLoop(_claimant, _claims, i, roots, claimedNow, totalBalance) ==
    IF i > Len(_claims)
    THEN [reverted |-> FALSE, reason |-> "", claimed |-> claimedNow,
          totalBalance |-> totalBalance]
    ELSE LET claim == _claims[i]
             fail(reason) == [reverted |-> TRUE, reason |-> reason,
                              claimed |-> claimedNow, totalBalance |-> 0]
         IN  IF claimedNow[claim.week][_claimant] THEN fail("")
             ELSE IF ~verifyClaim(_claimant, claim.week, claim.balance,
                                  claim.merkleProof, roots)
             THEN fail("Incorrect merkle proof")
             ELSE claimWeeksLoop(_claimant, _claims, i + 1, roots,
                      [claimedNow EXCEPT ![claim.week][_claimant] = TRUE],
                      totalBalance + claim.balance)

claimWeeks(_claimant, _claims, roots, claimedNow, bal) ==
    LET loop == claimWeeksLoop(_claimant, _claims, 1, roots, claimedNow, 0)
    IN  IF loop.reverted
        THEN Receipt(TRUE, loop.reason, roots, claimedNow, bal)
        ELSE LET d == disburse(_claimant, loop.totalBalance, roots, loop.claimed,
                               bal)
             IN  IF d.reverted
                 THEN Receipt(TRUE, d.reason, roots, claimedNow, bal)
                 ELSE d

\* the root written whatever the week holds
seedAllocationsRewriting(sender, _week, _merkleRoot, _totalAllocation, ownerNow, roots, claimedNow, bal) ==
    IF sender # ownerNow
    THEN Receipt(TRUE, "Ownable: caller is not the owner", roots, claimedNow, bal)
    ELSE LET t == tokenTransfer(sender, This, _totalAllocation, bal)
         IN  IF ~t.ok
             THEN Receipt(TRUE, "ERR_TRANSFER_FAILED", roots, claimedNow, bal)
             ELSE Receipt(FALSE, "", [roots EXCEPT ![_week] = _merkleRoot],
                          claimedNow, t.balances)

seedAllocations(sender, _week, _merkleRoot, _totalAllocation, ownerNow, roots, claimedNow, bal) ==
    IF sender # ownerNow
    THEN Receipt(TRUE, "Ownable: caller is not the owner", roots, claimedNow, bal)
    ELSE IF roots[_week] # Bytes32Zero
    THEN Receipt(TRUE, "cannot rewrite merkle root", roots, claimedNow, bal)
    ELSE LET t == tokenTransfer(sender, This, _totalAllocation, bal)
         IN  IF ~t.ok
             THEN Receipt(TRUE, "ERR_TRANSFER_FAILED", roots, claimedNow, bal)
             ELSE Receipt(FALSE, "", [roots EXCEPT ![_week] = _merkleRoot],
                          claimedNow, t.balances)

-----------------------------------------------------------------------------
(* The transactions sent to the contract *)

\* the snapshots whose roots are seeded: stakes 2 and 1 with 3 dropped (claims 2
\* and 1) and with 2 dropped (claims 1 and 0)
Manifests ==
    UNION {createSnapshot(<<[address |-> 1, stake |-> 2],
                            [address |-> 2, stake |-> 1]>>, dropped).snapshot :
              dropped \in {2, 3}}

MerkleRoots == {Bytes32Zero} \cup {m.merkleTree.root : m \in Manifests}

\* the (balance, proof) pairs of the snapshots' claims
Tickets ==
    UNION {{[balance |-> m.merkleTree.claims[i].value,
             merkleProof |-> m.merkleTree.claims[i].proof] :
               i \in 1..Len(m.merkleTree.claims)} : m \in Manifests}

\* the (balance, proof) pairs the snapshots hold for one claimant
TicketsOf(_claimant) ==
    UNION {{[balance |-> m.merkleTree.claims[i].value,
             merkleProof |-> m.merkleTree.claims[i].proof] :
               i \in {k \in 1..Len(m.merkleTree.claims) :
                          m.merkleTree.claims[k].address = _claimant}} :
              m \in Manifests}

\* struct Claim, made of a claimant's own tickets for any week
Claims(_claimant) ==
    {[week |-> w, balance |-> t.balance, merkleProof |-> t.merkleProof] :
        w \in Weeks, t \in TicketsOf(_claimant)}

\* the arrays handed to claimWeeks: no claim, one, or two
Batches(_claimant) ==
    {<<>>} \cup {<<a>> : a \in Claims(_claimant)}
           \cup {<<a, b>> : a, b \in Claims(_claimant)}

\* the amounts seeded: nothing, or a snapshot's droppedAmount
Allocations == {0} \cup {m.droppedAmount : m \in Manifests}

Senders == Claimants \cup {Deployer}

\* the constructor, called by the deployer who holds the tokens
InitRedeem ==
    /\ owner = Deployer
    /\ weekMerkleRoots = [w \in Weeks |-> Bytes32Zero]
    /\ claimed = [w \in Weeks |-> [c \in Claimants |-> FALSE]]
    /\ balances = [a \in Accounts |-> IF a = Deployer THEN Supply ELSE 0]
    /\ paid = [w \in Weeks |-> [c \in Claimants |-> 0]]
    /\ disbursed = [w \in Weeks |-> 0]
    /\ lastCall = [fn |-> "constructor", reverted |-> FALSE, reason |-> ""]
    /\ NoTree
    /\ NoSnapshot
    /\ NoRest

\* a transaction's effect: nothing but the receipt when it reverted
Mined(fn, r) ==
    /\ lastCall' = [fn |-> fn, reverted |-> r.reverted, reason |-> r.reason]
    /\ weekMerkleRoots' = IF r.reverted THEN weekMerkleRoots ELSE r.weekMerkleRoots
    /\ claimed' = IF r.reverted THEN claimed ELSE r.claimed
    /\ balances' = IF r.reverted THEN balances ELSE r.balances
    /\ UNCHANGED <<mtVars, snVars, restVars>>

\* the part of a batch's totalBalance that is claimed for week w
BalanceFor(w, _claims) ==
    SumSeq([i \in 1..Len(_claims) |->
               IF _claims[i].week = w THEN _claims[i].balance ELSE 0])

\* how often week w occurs in a batch
Occurrences(w, _claims) == Cardinality({i \in 1..Len(_claims) : _claims[i].week = w})

ClaimWeek(_claimant, _week, ticket) ==
    LET r == claimWeek(_claimant, _week, ticket.balance, ticket.merkleProof,
                       weekMerkleRoots, claimed, balances)
    IN  /\ Mined("claimWeek", r)
        /\ paid' = IF r.reverted THEN paid
                   ELSE [paid EXCEPT ![_week][_claimant] = @ + 1]
        /\ disbursed' = IF r.reverted THEN disbursed
                        ELSE [disbursed EXCEPT ![_week] = @ + ticket.balance]
        /\ UNCHANGED owner

ClaimWeeks(_claimant, _claims) ==
    LET r == claimWeeks(_claimant, _claims, weekMerkleRoots, claimed, balances)
    IN  /\ Mined("claimWeeks", r)
        /\ paid' = IF r.reverted THEN paid
                   ELSE [w \in Weeks |->
                            [paid[w] EXCEPT ![_claimant] = @ + Occurrences(w, _claims)]]
        /\ disbursed' = IF r.reverted THEN disbursed
                        ELSE [w \in Weeks |-> disbursed[w] + BalanceFor(w, _claims)]
        /\ UNCHANGED owner

SeedAllocations(sender, _week, _merkleRoot, _totalAllocation) ==
    LET r == seedAllocations(sender, _week, _merkleRoot, _totalAllocation,
                             owner, weekMerkleRoots, claimed, balances)
    IN  /\ Mined("seedAllocations", r)
        /\ UNCHANGED <<owner, paid, disbursed>>

NextRedeem ==
    \/ \E c \in Claimants, w \in Weeks, ticket \in Tickets :
           ClaimWeek(c, w, ticket)
    \/ \E c \in Claimants : \E batch \in Batches(c) :
           ClaimWeeks(c, batch)
    \/ \E sender \in Senders, w \in Weeks, root \in MerkleRoots,
          amount \in Allocations :
           SeedAllocations(sender, w, root, amount)

SpecRedeem == InitRedeem /\ [][NextRedeem]_vars

-----------------------------------------------------------------------------
(* RecurrentMerkledrop: constructor, makeClaim, batchMakeClaims, seed, finalize *)

\* address(0)
AddressZero == 0

Periods == 1..NumPeriods

Jurors == Addresses

\* what a transaction did: whether it reverted and why, and the state it leaves
DropReceipt(reverted, reason, ownerNow, roots, control, bal) ==
    [reverted |-> reverted, reason |-> reason, owner |-> ownerNow,
     periodToMerkleRoot |-> roots, claimControl |-> control, pnk |-> bal]

registerClaim(_juror, _period, control) ==
    [control EXCEPT ![_juror][_period] = "Done"]

\* verifyClaim(_juror, _claim) of RecurrentMerkledrop
verifyDropClaim(_juror, _claim, roots) ==
    MerkleProofVerify(_claim.merkleProof, roots[_claim.period],
                      makeLeafNode(_juror, _claim.amount))

makeClaim(now, until, _juror, _claim, ownerNow, roots, control, bal) ==
    IF ~(now < until)
    THEN DropReceipt(TRUE, "Claim period expired", ownerNow, roots, control, bal)
    ELSE IF control[_juror][_claim.period] # "Pending"
    THEN DropReceipt(TRUE, "Claim already done", ownerNow, roots, control, bal)
    ELSE IF ~verifyDropClaim(_juror, _claim, roots)
    THEN DropReceipt(TRUE, "Invalid merkle proof", ownerNow, roots, control, bal)
    ELSE LET t == tokenTransfer(This, _juror, _claim.amount, bal)
         IN  IF ~t.ok
             THEN DropReceipt(TRUE, "PNK transfer failed", ownerNow, roots, control, bal)
             ELSE DropReceipt(FALSE, "", ownerNow, roots,
                              registerClaim(_juror, _claim.period, control),
                              t.balances)

\* the loop of batchMakeClaims from claim number i on
RECURSIVE batchMakeClaimsLoop(_, _, _, _, _, _)
batchMakeClaimsLoop(_juror, _claims, i, roots, control, totalAmount) ==
    IF i > Len(_claims)
    THEN [reverted |-> FALSE, reason |-> "", claimControl |-> control,
          totalAmount |-> totalAmount]
    ELSE LET fail(reason) == [reverted |-> TRUE, reason |-> reason,
                              claimControl |-> control, totalAmount |-> 0]
         IN  IF control[_juror][_claims[i].period] # "Pending"
             THEN fail("Claim already done")
             ELSE IF ~verifyDropClaim(_juror, _claims[i], roots)
             THEN fail("Invalid merkle proof")
             ELSE batchMakeClaimsLoop(_juror, _claims, i + 1, roots,
                      registerClaim(_juror, _claims[i].period, control),
                      totalAmount + _claims[i].amount)

batchMakeClaims(now, until, _juror, _claims, ownerNow, roots, control, bal) ==
    IF ~(now < until)
    THEN DropReceipt(TRUE, "Claim period expired", ownerNow, roots, control, bal)
    ELSE LET loop == batchMakeClaimsLoop(_juror, _claims, 1, roots, control, 0)
         IN  IF loop.reverted
             THEN DropReceipt(TRUE, loop.reason, ownerNow, roots, control, bal)
             ELSE LET t == tokenTransfer(This, _juror, loop.totalAmount, bal)
                  IN  IF ~t.ok
                      THEN DropReceipt(TRUE, "PNK transfer failed", ownerNow, roots,
                                       control, bal)
                      ELSE DropReceipt(FALSE, "", ownerNow, roots,
                                       loop.claimControl, t.balances)

seed(sender, _period, _allocation, _merkleRoot, ownerNow, roots, control, bal) ==
    IF sender # ownerNow
    THEN DropReceipt(TRUE, "Only owner allowed", ownerNow, roots, control, bal)
    ELSE IF roots[_period] # Bytes32Zero
    THEN DropReceipt(TRUE, "Period already seeded", ownerNow, roots, control, bal)
    ELSE LET t == tokenTransfer(ownerNow, This, _allocation, bal)
         IN  IF ~t.ok
             THEN DropReceipt(TRUE, "PNK transfer failed", ownerNow, roots, control, bal)
             ELSE DropReceipt(FALSE, "", ownerNow,
                              [roots EXCEPT ![_period] = _merkleRoot], control,
                              t.balances)

finalize(sender, now, until, ownerNow, roots, control, bal) ==
    IF sender # ownerNow
    THEN DropReceipt(TRUE, "Only owner allowed", ownerNow, roots, control, bal)
    ELSE IF ~(now < until)
    THEN DropReceipt(TRUE, "Still in progress", ownerNow, roots, control, bal)
    ELSE LET balance == bal[This]
             t == tokenTransfer(This, ownerNow, balance, bal)
         IN  IF ~t.ok
             THEN DropReceipt(TRUE, "PNK transfer failed", ownerNow, roots, control, bal)
             ELSE DropReceipt(FALSE, "", AddressZero, roots, control, t.balances)

-----------------------------------------------------------------------------
(* The transactions sent to RecurrentMerkledrop and the blocks they are mined in *)

\* struct Claim, made of a juror's own tickets for any period
DropClaims(_juror) ==
    {[period |-> p, amount |-> t.balance, merkleProof |-> t.merkleProof] :
        p \in Periods, t \in TicketsOf(_juror)}

\* the arrays handed to batchMakeClaims: no claim, one, or two
DropBatches(_juror) ==
    {<<>>} \cup {<<a>> : a \in DropClaims(_juror)}
           \cup {<<a, b>> : a, b \in DropClaims(_juror)}

\* the constructor's _claimDuration, block.timestamp being 0 at deployment
ClaimDurations == 0..MaxClaimDuration

\* the constructor, called by the deployer who holds the tokens
InitMerkledrop ==
    /\ dropOwner = Deployer
    /\ blockTimestamp = 0
    /\ \E _claimDuration \in ClaimDurations :
           claimableUntil = blockTimestamp + _claimDuration
    /\ periodToMerkleRoot = [p \in Periods |-> Bytes32Zero]
    /\ claimControl = [j \in Jurors |-> [p \in Periods |-> "Pending"]]
    /\ pnk = [a \in Accounts |-> IF a = Deployer THEN Supply ELSE 0]
    /\ dropCall = [fn |-> "constructor", byOwner |-> TRUE, timestamp |-> 0,
                   reverted |-> FALSE, reason |-> "", remaining |-> 0]
    /\ NoTree
    /\ NoSnapshot
    /\ NoContract
    /\ NoBlocks
    /\ NoEvents
    /\ NoCache

\* a transaction's effect: nothing but the receipt when it reverted
DropMined(fn, byOwner, r) ==
    /\ dropCall' = [fn |-> fn, byOwner |-> byOwner,
                    timestamp |-> blockTimestamp, reverted |-> r.reverted,
                    reason |-> r.reason, remaining |-> pnk[This]]
    /\ dropOwner' = IF r.reverted THEN dropOwner ELSE r.owner
    /\ periodToMerkleRoot' = IF r.reverted THEN periodToMerkleRoot
                             ELSE r.periodToMerkleRoot
    /\ claimControl' = IF r.reverted THEN claimControl ELSE r.claimControl
    /\ pnk' = IF r.reverted THEN pnk ELSE r.pnk
    /\ UNCHANGED <<mtVars, snVars, rdVars, bkVars, evVars, chVars>>

\* makeClaim does not read msg.sender: anyone may send it for a juror
MakeClaim(_juror, _claim) ==
    LET r == makeClaim(blockTimestamp, claimableUntil, _juror, _claim, dropOwner,
                       periodToMerkleRoot, claimControl, pnk)
    IN  /\ DropMined("makeClaim", FALSE, r)
        /\ UNCHANGED <<claimableUntil, blockTimestamp>>

BatchMakeClaims(_juror, _claims) ==
    LET r == batchMakeClaims(blockTimestamp, claimableUntil, _juror, _claims,
                             dropOwner, periodToMerkleRoot, claimControl, pnk)
    IN  /\ DropMined("batchMakeClaims", FALSE, r)
        /\ UNCHANGED <<claimableUntil, blockTimestamp>>

Seed(sender, _period, _allocation, _merkleRoot) ==
    LET r == seed(sender, _period, _allocation, _merkleRoot, dropOwner,
                  periodToMerkleRoot, claimControl, pnk)
    IN  /\ DropMined("seed", sender = dropOwner, r)
        /\ UNCHANGED <<claimableUntil, blockTimestamp>>

Finalize(sender) ==
    LET r == finalize(sender, blockTimestamp, claimableUntil, dropOwner,
                      periodToMerkleRoot, claimControl, pnk)
    IN  /\ DropMined("finalize", sender = dropOwner, r)
        /\ UNCHANGED <<claimableUntil, blockTimestamp>>

\* the next block, one second later
NextBlock ==
    /\ blockTimestamp < MaxTimestamp
    /\ blockTimestamp' = blockTimestamp + 1
    /\ UNCHANGED <<dropOwner, claimableUntil, periodToMerkleRoot, claimControl,
                   pnk, dropCall>>
    /\ UNCHANGED <<mtVars, snVars, rdVars, bkVars, evVars, chVars>>

NextMerkledrop ==
    \/ \E j \in Jurors : \E claim \in DropClaims(j) :
           MakeClaim(j, claim)
    \/ \E j \in Jurors : \E batch \in DropBatches(j) :
           BatchMakeClaims(j, batch)
    \/ \E sender \in Senders, p \in Periods, root \in MerkleRoots,
          amount \in Allocations :
           Seed(sender, p, amount, root)
    \/ \E sender \in Senders : Finalize(sender)
    \/ NextBlock

SpecMerkledrop == InitMerkledrop /\ [][NextMerkledrop]_vars

-----------------------------------------------------------------------------
(* The calls on a tree *)

\* the hex leaves the callers draw from
HexLeaves == {makeLeafNode(a, 1) : a \in 1..NumLeaves}

LeafArgs == HexLeaves \cup {Nil}

\* the buffers getProof is called with: leaf digests and a buffer of another length
Buffers == {HexToBytes(h) : h \in HexLeaves} \cup {<<"raw", <<1>>>>}

InitMerkle ==
    /\ leafNodes \in SeqsUpTo(LeafArgs, MaxLeaves)
    /\ elements = MerkleTree(leafNodes).elements
    /\ layers = MerkleTree(leafNodes).layers
    /\ pcM = "new"
    /\ el = Nil
    /\ threw = FALSE
    /\ proof = {}
    /\ vleaf = Nil
    /\ valid = {}
    /\ NoSnapshot
    /\ NoContract
    /\ NoRest

GetProof(buf) ==
    LET r == getProof(buf, elements, layers)
    IN  /\ pcM' = "getProof"
        /\ el' = buf
        /\ threw' = r.threw
        /\ proof' = r.proof
        /\ vleaf' = Nil
        /\ valid' = {}
        /\ UNCHANGED <<leafNodes, elements, layers>>

GetHexProof(hex) ==
    LET r == getHexProof(hex, elements, layers)
    IN  /\ pcM' = "getHexProof"
        /\ el' = hex
        /\ threw' = r.threw
        /\ proof' = r.proof
        /\ vleaf' = Nil
        /\ valid' = {}
        /\ UNCHANGED <<leafNodes, elements, layers>>

\* verify(proof, mt.getHexRoot(), leaf) with the proof getHexProof returned
Verify(leaf) ==
    /\ pcM = "getHexProof"
    /\ ~threw
    /\ pcM' = "verify"
    /\ vleaf' = leaf
    /\ valid' = {verify(p, getHexRoot(layers), leaf) : p \in proof}
    /\ UNCHANGED <<leafNodes, elements, layers, el, threw, proof>>

NextMerkle ==
    \/ \E buf \in Buffers : GetProof(buf) /\ UNCHANGED <<snVars, rdVars, restVars>>
    \/ \E hex \in HexLeaves : GetHexProof(hex) /\ UNCHANGED <<snVars, rdVars, restVars>>
    \/ \E leaf \in HexLeaves : Verify(leaf) /\ UNCHANGED <<snVars, rdVars, restVars>>

SpecMerkle == InitMerkle /\ [][NextMerkle]_vars

-----------------------------------------------------------------------------
(* createBlockFetchers: findFirstAfter, findLastBefore *)

\* Math.min, Math.max
Min(a, b) == IF a < b THEN a ELSE b

Max(a, b) == IF a > b THEN a ELSE b

\* Math.ceil(a / b) for a >= 0, b > 0
CeilDiv(a, b) == (a + b - 1) \div b

\* 24 * 60 * 60
SecondsPerDay == 86400

\* AVG_BLOCKS_PER_DAY = Math.ceil(24 * 60 * 60 * AVG_BLOCKS_PER_SECOND), with
\* AVG_BLOCKS_PER_SECOND = perDay / 86400
AVG_BLOCKS_PER_DAY(perDay) == CeilDiv(SecondsPerDay * perDay, SecondsPerDay)

\* provider.getBlockNumber()
getBlockNumber(blocks) == Len(blocks) - 1

\* whether provider.getBlock(height) is answered: always for the heights
\* 0..head; below 0 as the provider has it
answers(mode, height) == height >= 0 \/ mode = "fromHead"

\* the block provider.getBlock(height) answers with
blockAt(blocks, height) ==
    IF height >= 0 THEN height ELSE Max(getBlockNumber(blocks) + height, 0)

\* (await provider.getBlock(height)).timestamp
timestampOf(blocks, height) == blocks[blockAt(blocks, height) + 1]

\* how a search ends: [status, reason, height]
Found(height) == [status |-> "returned", reason |-> "", height |-> height]

Thrown(reason) == [status |-> "threw", reason |-> reason, height |-> 0]

\* a loop that never ends
Pending == [status |-> "pending", reason |-> "", height |-> 0]

\* findAnyAfter(referenceTimestamp, hintHeight, currentHeight)
findAnyAfter(blocks, perDay, mode, referenceTimestamp, hintHeight, currentHeight) ==
    LET RECURSIVE loop(_, _)
        loop(height, factor) ==
            IF height < currentHeight
            THEN IF ~answers(mode, height) THEN Thrown("getBlock")
                 ELSE IF timestampOf(blocks, height) > referenceTimestamp
                 THEN Found(height)
                 ELSE loop(Min(height + (factor + 1) * AVG_BLOCKS_PER_DAY(perDay),
                               currentHeight),
                           factor + 1)
            ELSE Found(currentHeight)
    IN  loop(hintHeight + AVG_BLOCKS_PER_DAY(perDay), 1)

\* findAnyBefore(referenceTimestamp, hintHeight): only heights above 0 are
\* requested
findAnyBefore(blocks, perDay, referenceTimestamp, hintHeight) ==
    LET RECURSIVE loop(_, _)
        loop(height, factor) ==
            IF height > 0
            THEN IF timestampOf(blocks, height) < referenceTimestamp
                 THEN Found(height)
                 ELSE loop(Max(height - (factor + 1) * AVG_BLOCKS_PER_DAY(perDay), 0),
                           factor + 1)
            ELSE Found(0)
    IN  loop(hintHeight - AVG_BLOCKS_PER_DAY(perDay), 1)

\* currentBlockHeight - Math.ceil((currentBlock.timestamp - referenceTimestamp)
\*                                * AVG_BLOCKS_PER_SECOND)
pivotOf(blocks, perDay, referenceTimestamp) ==
    getBlockNumber(blocks)
        - CeilDiv((timestampOf(blocks, getBlockNumber(blocks)) - referenceTimestamp)
                      * perDay,
                  SecondsPerDay)

\* while (low != high) { ... } of findFirstAfter. With low > high every mid
\* satisfies high <= mid < low, so low stays above high and the loop never ends.
RECURSIVE firstAfterLoop(_, _, _, _)
firstAfterLoop(blocks, referenceTimestamp, low, high) ==
    IF low > high THEN Pending
    ELSE IF low # high
    THEN LET mid == (low + high) \div 2
         IN  IF timestampOf(blocks, mid) <= referenceTimestamp
             THEN firstAfterLoop(blocks, referenceTimestamp, mid + 1, high)
             ELSE firstAfterLoop(blocks, referenceTimestamp, low, mid)
    ELSE Found(high)

\* while (low != high) { ... } of findLastBefore, then high - 1
RECURSIVE lastBeforeLoop(_, _, _, _)
lastBeforeLoop(blocks, referenceTimestamp, low, high) ==
    IF low > high THEN Pending
    ELSE IF low # high
    THEN LET mid == (low + high) \div 2
         IN  IF timestampOf(blocks, mid) >= referenceTimestamp
             THEN lastBeforeLoop(blocks, referenceTimestamp, low, mid)
             ELSE lastBeforeLoop(blocks, referenceTimestamp, mid + 1, high)
    ELSE Found(high - 1)

\* findFirstAfter(date): [status, reason, height]
findFirstAfter(blocks, perDay, mode, referenceTimestamp) ==
    LET currentBlockHeight == getBlockNumber(blocks)
        pivot == pivotOf(blocks, perDay, referenceTimestamp)
        high == findAnyAfter(blocks, perDay, mode, referenceTimestamp, pivot,
                             currentBlockHeight)
        low == findAnyBefore(blocks, perDay, referenceTimestamp, pivot)
    IN  IF timestampOf(blocks, currentBlockHeight) < referenceTimestamp
        THEN Thrown("No block after")
        ELSE IF high.status = "threw" THEN high
        ELSE firstAfterLoop(blocks, referenceTimestamp, low.height, high.height)

\* findLastBefore(date): [status, reason, height]
findLastBefore(blocks, perDay, mode, referenceTimestamp) ==
    LET currentBlockHeight == getBlockNumber(blocks)
        pivot == pivotOf(blocks, perDay, referenceTimestamp)
        high == findAnyAfter(blocks, perDay, mode, referenceTimestamp, pivot,
                             currentBlockHeight)
        low == findAnyBefore(blocks, perDay, referenceTimestamp, pivot)
    IN  IF timestampOf(blocks, currentBlockHeight) < referenceTimestamp
        THEN Thrown("No block before")
        ELSE IF high.status = "threw" THEN high
        ELSE lastBeforeLoop(blocks, referenceTimestamp, low.height, high.height)

\* the Unix timestamps of blocks and dates: whole half days
Timestamps == {k * (SecondsPerDay \div 2) : k \in 0..MaxTime}

\* the chains: the blocks 0..head with non-decreasing timestamps
Chains ==
    {blocks \in UNION {[1..n -> Timestamps] : n \in 1..(MaxHeight + 1)} :
        \A h \in 1..(Len(blocks) - 1) : blocks[h] <= blocks[h + 1]}

InitBlocks ==
    /\ chain \in Chains
    /\ avgBlocksPerDay \in 1..MaxPerDay
    /\ belowGenesis \in {"fails", "fromHead"}
    /\ fetched = [fn |-> "none", referenceTimestamp |-> 0, status |-> "none",
                  reason |-> "", height |-> 0]
    /\ NoTree
    /\ NoSnapshot
    /\ NoContract
    /\ NoEvents
    /\ NoCache
    /\ NoMerkledrop

Fetched(fn, referenceTimestamp, r) ==
    [fn |-> fn, referenceTimestamp |-> referenceTimestamp, status |-> r.status,
     reason |-> r.reason, height |-> r.height]

FindFirstAfter(referenceTimestamp) ==
    /\ fetched' = Fetched("findFirstAfter", referenceTimestamp,
                          findFirstAfter(chain, avgBlocksPerDay, belowGenesis,
                                         referenceTimestamp))
    /\ UNCHANGED <<chain, avgBlocksPerDay, belowGenesis>>
    /\ UNCHANGED <<mtVars, snVars, rdVars, evVars, chVars, mdVars>>

FindLastBefore(referenceTimestamp) ==
    /\ fetched' = Fetched("findLastBefore", referenceTimestamp,
                          findLastBefore(chain, avgBlocksPerDay, belowGenesis,
                                         referenceTimestamp))
    /\ UNCHANGED <<chain, avgBlocksPerDay, belowGenesis>>
    /\ UNCHANGED <<mtVars, snVars, rdVars, evVars, chVars, mdVars>>

NextBlocks ==
    \/ \E referenceTimestamp \in Timestamps : FindFirstAfter(referenceTimestamp)
    \/ \E referenceTimestamp \in Timestamps : FindLastBefore(referenceTimestamp)

SpecBlocks == InitBlocks /\ [][NextBlocks]_vars

-----------------------------------------------------------------------------
(* helpers/events.js: getEvents *)

\* splitBlockInterval({ fromBlock, toBlock, batchSize }): the pages { from, to }
splitBlockInterval(fromBlock, toBlock, batchSize) ==
    LET totalBlocks == toBlock - fromBlock + 1
        totalPages == CeilDiv(totalBlocks, batchSize)
    IN  IF totalBlocks <= 0 THEN <<>>
        ELSE [page \in 1..totalPages |->
                 LET from == fromBlock + (page - 1) * batchSize
                 IN  [from |-> from, to |-> Min(from + batchSize - 1, toBlock)]]

\* map without a limit: every waiting item is started
asyncMap(limit, running, waiting) == waiting

\* asyncMapLimit(fn, concurrency, blockIntervals): how many of the waiting items
\* it starts when `running` mappers have not settled
asyncMapLimit(limit, running, waiting) == Min(limit - running, waiting)

InitEvents ==
    /\ blockIntervals = <<>>
    /\ concurrency = 0
    /\ requested = 0
    /\ outstanding = {}
    /\ epc = "idle"
    /\ NoTree
    /\ NoSnapshot
    /\ NoContract
    /\ NoBlocks
    /\ NoCache
    /\ NoMerkledrop

\* the call: the intervals are split and the first queryFilter requests go out;
\* with no interval the result is there at once
GetEvents(fromBlock, toBlock, limit, batchSize) ==
    /\ epc = "idle"
    /\ LET intervals == splitBlockInterval(fromBlock, toBlock, batchSize)
           first == asyncMapLimit(limit, 0, Len(intervals))
       IN  /\ blockIntervals' = intervals
           /\ concurrency' = limit
           /\ requested' = first
           /\ outstanding' = 1..first
           /\ epc' = IF intervals = <<>> THEN "returned" ELSE "running"
    /\ UNCHANGED <<mtVars, snVars, rdVars, bkVars, chVars, mdVars>>

\* contract.queryFilter(filter, from, to) of interval i settles: the next
\* waiting intervals are started, and after the last one getEvents returns
QueryFilterSettles(i) ==
    /\ epc = "running"
    /\ i \in outstanding
    /\ LET running == Cardinality(outstanding) - 1
           more == asyncMapLimit(concurrency, running,
                                 Len(blockIntervals) - requested)
       IN  /\ requested' = requested + more
           /\ outstanding' = (outstanding \ {i}) \cup ((requested + 1)..(requested + more))
           /\ epc' = IF outstanding' = {} /\ requested' = Len(blockIntervals)
                     THEN "returned" ELSE "running"
    /\ UNCHANGED <<blockIntervals, concurrency>>
    /\ UNCHANGED <<mtVars, snVars, rdVars, bkVars, chVars, mdVars>>

NextEvents ==
    \/ \E fromBlock \in 0..MaxToBlock, toBlock \in 0..MaxToBlock,
          limit \in 1..MaxConcurrency, batchSize \in 1..MaxBatchSize :
           GetEvents(fromBlock, toBlock, limit, batchSize)
    \/ \E i \in 1..(MaxToBlock + 1) : QueryFilterSettles(i)

SpecEvents == InitEvents /\ [][NextEvents]_vars

-----------------------------------------------------------------------------
(* createGetBlockWithTimestamp: getBlock with the hot and the persistent cache *)

BlockHeights == 1..NumHeights

Callers == 1..NumCallers

\* the block the provider returns for a height
ProviderBlock(blockHeight) ==
    [number |-> blockHeight, timestamp |-> 100 + blockHeight]

\* pick(PROPS_WHITELIST, data)
pickWhitelist(data) == [timestamp |-> data.timestamp]

\* the entries of the hot cache
NoEntry == [kind |-> "none", id |-> 0]

\* JSON.parse(persistedData)
ParsedEntry(blockHeight) == [kind |-> "data", id |-> blockHeight]

\* the promise provider.getBlock(blockHeight) returned, by the request's number
RequestEntry(id) == [kind |-> "request", id |-> id]

\* !hotCache[chainId]?.[blockHeight]
hotCacheMiss(cache, blockHeight) == cache[blockHeight] = NoEntry

\* whether `await entry` can go on, and with what
isSettled(entry, reqs) ==
    IF entry.kind = "data" THEN TRUE ELSE reqs[entry.id].settled

dataOf(entry, reqs) ==
    IF entry.kind = "data" THEN ProviderBlock(entry.id)
    ELSE ProviderBlock(reqs[entry.id].blockHeight)

Caller(pcNow, blockHeight, entry, data) ==
    [pc |-> pcNow, blockHeight |-> blockHeight, entry |-> entry, data |-> data]

NoData == [timestamp |-> 0]

\* a fresh process: both caches empty, or the block stored by an earlier run
InitCache ==
    /\ hotCache = [h \in BlockHeights |-> NoEntry]
    /\ persistentCache \in SUBSET BlockHeights
    /\ requests = <<>>
    /\ callers = [c \in Callers |-> Caller("idle", 0, NoEntry, NoData)]
    /\ served = {}
    /\ NoTree
    /\ NoSnapshot
    /\ NoContract
    /\ NoBlocks
    /\ NoEvents
    /\ NoMerkledrop

\* getBlock(blockHeight) is called: it runs up to `await networkPromise`
GetBlock(c, blockHeight) ==
    /\ callers[c].pc \in {"idle", "returned"}
    /\ callers' = [callers EXCEPT ![c] = Caller("network", blockHeight, NoEntry, NoData)]
    /\ UNCHANGED <<hotCache, persistentCache, requests, served>>

\* the chain id is there: the hot cache is looked up; on a miss the persistent
\* cache is asked (and the call waits), on a hit the entry is awaited
HotCacheLookup(c) ==
    /\ callers[c].pc = "network"
    /\ LET blockHeight == callers[c].blockHeight
       IN  callers' = [callers EXCEPT ![c] =
               IF hotCacheMiss(hotCache, blockHeight)
               THEN Caller("persistent", blockHeight, NoEntry, NoData)
               ELSE Caller("data", blockHeight, hotCache[blockHeight], NoData)]
    /\ UNCHANGED <<hotCache, persistentCache, requests, served>>

\* persistentCache.get settles: with the stored block the hot cache gets the
\* parsed data; with NotFoundError a provider.getBlock request is made and put
\* in the hot cache; then the entry of the hot cache is awaited
PersistentGetSettles(c) ==
    /\ callers[c].pc = "persistent"
    /\ LET blockHeight == callers[c].blockHeight
           entry == IF blockHeight \in persistentCache
                    THEN ParsedEntry(blockHeight)
                    ELSE RequestEntry(Len(requests) + 1)
       IN  /\ requests' = IF blockHeight \in persistentCache THEN requests
                          ELSE Append(requests, [blockHeight |-> blockHeight,
                                                 settled |-> FALSE,
                                                 stored |-> FALSE])
           /\ hotCache' = [hotCache EXCEPT ![blockHeight] = entry]
           /\ callers' = [callers EXCEPT ![c] = Caller("data", blockHeight, entry, NoData)]
    /\ UNCHANGED <<persistentCache, served>>

\* the provider answers a request
RequestSettles(id) ==
    /\ id \in 1..Len(requests)
    /\ ~requests[id].settled
    /\ requests' = [requests EXCEPT ![id].settled = TRUE]
    /\ UNCHANGED <<hotCache, persistentCache, callers, served>>

\* request.then(...): persistentCache.put(`${chainId}/${blockHeight}`, ...)
PersistentPut(id) ==
    /\ id \in 1..Len(requests)
    /\ requests[id].settled
    /\ ~requests[id].stored
    /\ requests' = [requests EXCEPT ![id].stored = TRUE]
    /\ persistentCache' = persistentCache \cup {requests[id].blockHeight}
    /\ UNCHANGED <<hotCache, callers, served>>

\* `await hotCache[chainId][blockHeight]` goes on: getBlock returns
\* pick(PROPS_WHITELIST, data)
GetBlockReturns(c) ==
    /\ callers[c].pc = "data"
    /\ isSettled(callers[c].entry, requests)
    /\ callers' = [callers EXCEPT ![c] =
           Caller("returned", callers[c].blockHeight, callers[c].entry,
                  pickWhitelist(dataOf(callers[c].entry, requests)))]
    /\ served' = served \cup {callers[c].blockHeight}
    /\ UNCHANGED <<hotCache, persistentCache, requests>>

NextCache ==
    \/ \E c \in Callers, blockHeight \in BlockHeights :
           GetBlock(c, blockHeight) /\ UNCHANGED <<mtVars, snVars, rdVars, bkVars, evVars, mdVars>>
    \/ \E c \in Callers :
           HotCacheLookup(c) /\ UNCHANGED <<mtVars, snVars, rdVars, bkVars, evVars, mdVars>>
    \/ \E c \in Callers :
           PersistentGetSettles(c) /\ UNCHANGED <<mtVars, snVars, rdVars, bkVars, evVars, mdVars>>
    \/ \E id \in 1..NumCallers * NumHeights :
           RequestSettles(id) /\ UNCHANGED <<mtVars, snVars, rdVars, bkVars, evVars, mdVars>>
    \/ \E id \in 1..NumCallers * NumHeights :
           PersistentPut(id) /\ UNCHANGED <<mtVars, snVars, rdVars, bkVars, evVars, mdVars>>
    \/ \E c \in Callers :
           GetBlockReturns(c) /\ UNCHANGED <<mtVars, snVars, rdVars, bkVars, evVars, mdVars>>

SpecCache == InitCache /\ [][NextCache]_vars

-----------------------------------------------------------------------------
(* Properties of the Merkle tree *)

Range(seq) == {seq[i] : i \in 1..Len(seq)}

RemoveAt(seq, j) == SubSeq(seq, 1, j - 1) \o SubSeq(seq, j + 1, Len(seq))

\* every reordering of a list
RECURSIVE PermutationsOf(_)
PermutationsOf(seq) ==
    IF seq = <<>> THEN {<<>>}
    ELSE UNION {{<<seq[i]>> \o rest : rest \in PermutationsOf(RemoveAt(seq, i))} :
                   i \in 1..Len(seq)}

ThisTree == [elements |-> elements, layers |-> layers]

\* C1: the proof getHexProof returns for a leaf of the list verifies that leaf
\* against the tree's root: verify(getHexProof(leaf), getHexRoot(), leaf) is true.
C1_RoundTrip ==
    (pcM = "verify" /\ vleaf \in Range(leafNodes) /\ vleaf = el)
        => valid = {TRUE}

C1_Witness ==
    /\ pcM = "verify"
    /\ vleaf \in Range(leafNodes)
    /\ vleaf = el
    /\ \E p \in proof : Len(p) >= 2
    /\ Len(elements) = 3
    /\ valid = {TRUE}

\* C2: the tree built from any permutation of the leaf list has the same
\* elements and layers (hence the same root) as the tree built from the list.
C2_OrderIndependence ==
    pcM = "new" =>
        \A perm \in PermutationsOf(leafNodes) :
            /\ MerkleTree(perm) = ThisTree
            /\ getRoot(MerkleTree(perm).layers) = getRoot(layers)

C2_Witness ==
    /\ pcM = "new"
    /\ Len(elements) >= 3
    /\ \E i, j \in 1..Len(leafNodes) :
           /\ i < j
           /\ ~isNil(leafNodes[i]) /\ ~isNil(leafNodes[j])
           /\ BufferCompare(HexToBytes(leafNodes[i]), HexToBytes(leafNodes[j])) > 0

\* C3: when a leaf hash occurs twice in the list, at any two positions, the
\* tree has the same elements, layers, root and proofs as the tree of the list
\* with the second occurrence removed.
C3_DedupIdempotence ==
    pcM = "new" =>
        \A i, j \in 1..Len(leafNodes) :
            (i < j /\ ~isNil(leafNodes[i]) /\ leafNodes[i] = leafNodes[j]) =>
                LET once == MerkleTree(RemoveAt(leafNodes, j))
                IN  /\ once = ThisTree
                    /\ getRoot(once.layers) = getRoot(layers)
                    /\ \A buf \in Buffers :
                           getProof(buf, once.elements, once.layers)
                               = getProof(buf, elements, layers)

C3_Witness ==
    /\ pcM = "new"
    /\ Len(elements) >= 2
    /\ \E i, j \in 1..Len(leafNodes) :
           /\ i + 1 < j
           /\ ~isNil(leafNodes[i])
           /\ leafNodes[i] = leafNodes[j]
           /\ ~isNil(leafNodes[i + 1])
           /\ leafNodes[i + 1] # leafNodes[i]

\* C4: getProof / getHexProof of a leaf hash that is not among the tree's
\* leaves throws and returns no proof, the empty tree included.
C4_AbsentLeafThrows ==
    /\ (pcM = "getProof" /\ Is32Bytes(el) /\ BufferToHex(el) \notin Range(leafNodes))
           => (threw /\ proof = {})
    /\ (pcM = "getHexProof" /\ el \notin Range(leafNodes))
           => (threw /\ proof = {})

C4_Witness ==
    /\ pcM = "getHexProof"
    /\ el \notin Range(leafNodes)
    /\ Len(elements) >= 2
    /\ threw
    /\ proof = {}

\* C5: the proof of a leaf of the tree does not verify a leaf that is not in
\* the tree: verify(getHexProof(L), getHexRoot(), X) is false.
C5_ForeignLeafRejected ==
    (pcM = "verify" /\ el \in Range(leafNodes) /\ vleaf \notin Range(leafNodes))
        => valid = {FALSE}

C5_Witness ==
    /\ pcM = "verify"
    /\ el \in Range(leafNodes)
    /\ vleaf \notin Range(leafNodes)
    /\ \E p \in proof : Len(p) >= 2
    /\ valid = {FALSE}

-----------------------------------------------------------------------------
(* Properties of the average stakes *)

\* the addresses getAverageStake was called for
Processed == 1..Len(trace)

ClaimAddresses == {stakesByAddress[i].address : i \in 1..Len(stakesByAddress)}

\* the events of one address before block `limit`
EventsBefore(address, limit) ==
    FilterSeq(EventsOf(address, events), LAMBDA e : e.blockNumber < limit)

\* the stake an address holds at block p: its latest event at or before p
\* (highest log index in that block), 0 when there is none
Held(address, p) ==
    LET upTo == {e \in Range(EventsOf(address, events)) : e.blockNumber <= p}
    IN  IF upTo = {} THEN 0
        ELSE (CHOOSE e \in upTo :
                 \A f \in upTo :
                     \/ f.blockNumber < e.blockNumber
                     \/ f.blockNumber = e.blockNumber /\ f.logIndex <= e.logIndex
             ).totalStake

\* floor(sum of Held over [startBlock, endBlock) / (endBlock - startBlock))
ReferenceAverage(address) ==
    SumSeq([k \in 1..(endBlock - startBlock) |-> Held(address, startBlock + k - 1)])
        \div (endBlock - startBlock)

\* the blocks of [startBlock, endBlock) at which an address has an event, ascending
ChangePoints(address) ==
    LET blocks == {e.blockNumber : e \in Range(EventsBefore(address, endBlock))}
                      \cap startBlock..(endBlock - 1)
        self(b) == b
    IN  SortBy(self, CHOOSE seq \in [1..Cardinality(blocks) -> blocks] :
                         Range(seq) = blocks)

\* one segment per change point: the stake held from it to the next one (or to
\* endBlock)
SegmentsFrom(address, points) ==
    [i \in 1..Len(points) |->
        [weight |-> (IF i < Len(points) THEN points[i + 1] ELSE endBlock) - points[i],
         value |-> Held(address, points[i])]]

\* C6 as stated: an address with an event at or before endBlock has segments
\* whose weights sum to endBlock - startBlock.
C6_AtOrBeforeEnd ==
    \A i \in Processed :
        (/\ startBlock <= endBlock
         /\ \E e \in Range(EventsOf(trace[i].address, events)) :
                e.blockNumber <= endBlock)
            => getTotalWeight(trace[i].outcome.items) = endBlock - startBlock

\* C6: for an address with at least one event strictly before endBlock (and
\* startBlock <= endBlock) the step function is built and its weights sum to
\* exactly endBlock - startBlock.
C6_TotalWeight ==
    \A i \in Processed :
        (/\ startBlock <= endBlock
         /\ EventsBefore(trace[i].address, endBlock) # <<>>)
            => /\ trace[i].outcome.built
               /\ getTotalWeight(trace[i].outcome.items) = endBlock - startBlock

C6_Witness ==
    /\ pc = "averaged"
    /\ startBlock > 0
    /\ \E i \in Processed :
           /\ Len(EventsBefore(trace[i].address, startBlock)) = 1
           /\ Len(EventsBefore(trace[i].address, endBlock)) = 2
           /\ Len(trace[i].outcome.items) = 2
           /\ \A k \in 1..2 : trace[i].outcome.items[k].weight > 0
           /\ getTotalWeight(trace[i].outcome.items) = endBlock - startBlock

\* C7: an address all of whose events are at or after endBlock gets average 0,
\* no step function is built for it, getWeightedAverage is not invoked, and it
\* has no entry in the result.
C7_ZeroEventPolicy ==
    \A i \in Processed :
        (\A e \in Range(EventsOf(trace[i].address, events)) :
             e.blockNumber >= endBlock)
            => /\ trace[i].outcome.status = "ok"
               /\ trace[i].outcome.average = 0
               /\ ~trace[i].outcome.built
               /\ ~trace[i].outcome.invoked
               /\ trace[i].address \notin ClaimAddresses

C7_Witness ==
    /\ pc = "averaged"
    /\ Len(stakesByAddress) = 1
    /\ \E i \in Processed :
           /\ \A e \in Range(EventsOf(trace[i].address, events)) :
                  e.blockNumber >= endBlock
           /\ \E e \in Range(EventsOf(trace[i].address, events)) :
                  e.blockNumber = endBlock /\ e.totalStake > 0
           /\ trace[i].outcome.average = 0
           /\ trace[i].address \notin ClaimAddresses

\* C8: when startBlock < endBlock, every address's average is
\* floor((sum over p in [startBlock, endBlock) of held(p)) / (endBlock - startBlock));
\* the result holds it for the addresses where it is not 0.
C8_ReferenceAverage ==
    (pc # "start" /\ startBlock < endBlock) =>
        /\ pc # "failed"
        /\ Len(trace) = Cardinality({e.address : e \in Range(events)})
        /\ \A i \in Processed :
               /\ trace[i].outcome.status = "ok"
               /\ trace[i].outcome.average = ReferenceAverage(trace[i].address)
        /\ \A k \in 1..Len(stakesByAddress) :
               stakesByAddress[k].stake = ReferenceAverage(stakesByAddress[k].address)
        /\ \A i \in Processed :
               ReferenceAverage(trace[i].address) # 0
                   => trace[i].address \in ClaimAddresses

\* events (10, 100), (20, 300) over [0, 30) give 133
C8_Witness ==
    /\ pc = "averaged"
    /\ events = ScenarioA.events
    /\ startBlock = 0
    /\ endBlock = 30
    /\ stakesByAddress = <<[address |-> 1, stake |-> 133]>>

\* C9: when the first event of an address lies inside [startBlock, endBlock),
\* the events are seeded with a synthetic stake-0 event that clamps to
\* startBlock: the first segment has value 0 and weight
\* (first event's block - startBlock), and the other segments are those of the
\* address's events.
C9_FirstEventInside ==
    \A i \in Processed :
        LET a == trace[i].address
            o == trace[i].outcome
            first == EventsOf(a, events)[1]
        IN  (startBlock <= first.blockNumber /\ first.blockNumber < endBlock)
                => /\ o.built
                   /\ o.normalized[1].address = 0
                   /\ o.normalized[1].totalStake = 0
                   /\ withinRange(o.normalized[1].blockNumber) = startBlock
                   /\ o.items[1] = [weight |-> first.blockNumber - startBlock,
                                    value |-> 0]
                   /\ Tail(o.items) = SegmentsFrom(a, ChangePoints(a))

C9_Witness ==
    /\ pc = "averaged"
    /\ endBlock <= MaxBlock
    /\ \E i \in Processed :
           LET o == trace[i].outcome
               first == EventsOf(trace[i].address, events)[1]
           IN  /\ startBlock < first.blockNumber
               /\ first.blockNumber < endBlock
               /\ Len(o.items) = 3
               /\ o.items[1] = [weight |-> first.blockNumber - startBlock, value |-> 0]
               /\ o.items[2].value > 0
               /\ o.items[3].weight > 0

\* C10: for every interval startBlock <= endBlock, when all events of an
\* address before endBlock lie strictly before startBlock, the step function is
\* one segment of weight endBlock - startBlock carrying the latest such
\* event's stake, and the average is that stake.
C10_ConstantValue ==
    \A i \in Processed :
        LET a == trace[i].address
            o == trace[i].outcome
            before == EventsBefore(a, endBlock)
        IN  (/\ startBlock <= endBlock
             /\ before # <<>>
             /\ \A e \in Range(before) : e.blockNumber < startBlock)
                => /\ o.items = <<[weight |-> endBlock - startBlock,
                                   value |-> before[Len(before)].totalStake]>>
                   /\ o.status = "ok"
                   /\ o.average = before[Len(before)].totalStake

\* the same with startBlock < endBlock
C10_ConstantValueNonEmpty ==
    \A i \in Processed :
        LET a == trace[i].address
            o == trace[i].outcome
            before == EventsBefore(a, endBlock)
        IN  (/\ startBlock < endBlock
             /\ before # <<>>
             /\ \A e \in Range(before) : e.blockNumber < startBlock)
                => /\ o.items = <<[weight |-> endBlock - startBlock,
                                   value |-> before[Len(before)].totalStake]>>
                   /\ o.status = "ok"
                   /\ o.average = before[Len(before)].totalStake

\* the events of an address that have the highest log index of their block
LatestOfEachBlock(address) ==
    LET evs == EventsOf(address, events)
    IN  FilterSeq(evs, LAMBDA e :
            \A f \in Range(evs) :
                f.blockNumber = e.blockNumber => f.logIndex <= e.logIndex)

\* C11: of the events of one address in one block only the one with the
\* highest log index reaches the step function: every event the step function
\* is built from is such an event (or a synthetic one), and the items, the
\* outcome and the average are those of the address's events with the other
\* events of each block removed.
C11_SamePositionDedup ==
    \A i \in Processed :
        LET o == trace[i].outcome
            kept == LatestOfEachBlock(trace[i].address)
            r == getAverageStake(kept)
        IN  /\ \A k \in 1..Len(o.normalized) :
                   o.normalized[k].address # 0 => o.normalized[k] \in Range(kept)
            /\ o.status = r.status
            /\ o.average = r.average
            /\ o.items = r.items

C11_Witness ==
    /\ pc = "averaged"
    /\ \E i \in Processed :
           LET evs == EventsOf(trace[i].address, events)
               o == trace[i].outcome
           IN  /\ Len(evs) = 2
               /\ evs[1].blockNumber = evs[2].blockNumber
               /\ evs[1].logIndex < evs[2].logIndex
               /\ evs[1].totalStake > evs[2].totalStake
               /\ startBlock <= evs[1].blockNumber
               /\ o.built
               /\ Len(o.items) = 2
               /\ o.average = evs[2].totalStake
               /\ o.average > 0

\* C12: whatever the order in which the stake sets arrive, getStakeSets puts
\* them in ascending (blockNumber, logIndex) order, so every permutation of
\* the events gives the same outcome and the same per-address averages.
C12_InputOrderIndependence ==
    pc # "start" =>
        \A arrived \in PermutationsOf(events) :
            LET r == getAverageStakesByAddress(getStakeSets(arrived))
            IN  /\ getStakeSets(arrived) = events
                /\ (r.status = "ok") <=> (pc # "failed")
                /\ Range(r.stakes) = Range(stakesByAddress)

\* two events of one address, where the averages computed from the events in
\* the opposite order would differ
C12_Witness ==
    /\ pc = "averaged"
    /\ startBlock < endBlock
    /\ Len(events) = 2
    /\ events[1].address = events[2].address
    /\ events[1].blockNumber < events[2].blockNumber
    /\ stakesByAddress # <<>>
    /\ LET r == getAverageStakesByAddress(<<events[2], events[1]>>)
       IN  Range(r.stakes) # Range(stakesByAddress)

-----------------------------------------------------------------------------
(* Properties of the allocation *)

\* the claims of the returned snapshot
ClaimsOf(m) == m.merkleTree.claims

ClaimValues(m) == [i \in 1..Len(ClaimsOf(m)) |-> ClaimsOf(m)[i].value]

ClaimAverages(m) == [i \in 1..Len(ClaimsOf(m)) |-> ClaimsOf(m)[i].averageStake]

\* C13 (P6): the claim values of a returned snapshot sum to at most
\* droppedAmount, and droppedAmount minus that sum is strictly less than the
\* number of participants.
C13_AllocationConservation ==
    \A m \in snapshot :
        /\ SumSeq(ClaimValues(m)) <= droppedAmount
        /\ droppedAmount - SumSeq(ClaimValues(m)) < Len(stakesByAddress)
        /\ Len(ClaimsOf(m)) = Len(stakesByAddress)

\* three participants and the largest shortfall they can leave
C13_Witness ==
    /\ pc = "returned"
    /\ Len(stakesByAddress) = 3
    /\ \E m \in snapshot :
           /\ Len(ClaimsOf(m)) = 3
           /\ droppedAmount - SumSeq(ClaimValues(m)) = 2

\* C14: every claim's value is floor(average * droppedAmount / totalAverage),
\* totalAverage being the sum of all retained averages, and totalClaimable is
\* the sum of the claim values.
C14_ProportionalClaim ==
    \A m \in snapshot :
        LET totalAverage ==
                SumSeq([i \in 1..Len(stakesByAddress) |-> stakesByAddress[i].stake])
        IN  /\ m.averageTotalStaked = totalAverage
            /\ \A i \in 1..Len(ClaimsOf(m)) :
                   LET c == ClaimsOf(m)[i]
                   IN  /\ c.averageStake = Lookup(stakesByAddress, c.address).stake
                       /\ c.value * totalAverage <= c.averageStake * droppedAmount
                       /\ c.averageStake * droppedAmount < (c.value + 1) * totalAverage
            /\ m.totalClaimable = SumSeq(ClaimValues(m))

\* droppedAmount 1000 with averages {1: 133, 2: 50} gives 726 and 273
C14_Witness ==
    /\ pc = "returned"
    /\ droppedAmount = 1000
    /\ stakesByAddress = <<[address |-> 1, stake |-> 133], [address |-> 2, stake |-> 50]>>
    /\ \E m \in snapshot :
           /\ ClaimValues(m) = <<726, 273>>
           /\ m.totalClaimable = 999

\* the addresses with a claim in the returned snapshot, in order
ClaimedAddresses(m) == [i \in 1..Len(ClaimsOf(m)) |-> ClaimsOf(m)[i].address]

\* the addresses of the events whose reference average is not 0
NonZeroAddresses ==
    {a \in {e.address : e \in Range(events)} :
        startBlock < endBlock /\ ReferenceAverage(a) # 0}

\* C15: a returned snapshot has exactly one claim per address whose average is
\* not 0, and none for an address whose average is 0, such as one whose
\* events are all at or after endBlock.
C15_ClaimSet ==
    \A m \in snapshot :
        LET listed == ClaimedAddresses(m)
        IN  /\ \A i, j \in 1..Len(listed) : i # j => listed[i] # listed[j]
            /\ Range(listed) = NonZeroAddresses
            /\ \A a \in Range(listed) :
                   \E e \in Range(events) : e.address = a /\ e.blockNumber < endBlock

\* one juror with stake inside the interval, the other staking only from
\* endBlock on
C15_Witness ==
    /\ pc = "returned"
    /\ Cardinality({e.address : e \in Range(events)}) = 2
    /\ \E e \in Range(events) : e.blockNumber >= endBlock /\ e.totalStake > 0
    /\ \E m \in snapshot :
           /\ Len(ClaimsOf(m)) = 1
           /\ \A e \in Range(events) :
                  e.address = ClaimsOf(m)[1].address => e.blockNumber < endBlock

\* every address was averaged and every average is 0
NoParticipants ==
    /\ Len(trace) = Cardinality({e.address : e \in Range(events)})
    /\ \A i \in Processed :
           trace[i].outcome.status = "ok" /\ trace[i].outcome.average = 0

\* C16: when no address has a non-zero average, createSnapshot fails and
\* returns no snapshot, not even a part of one.
C16_NoParticipants ==
    (pc \notin {"start", "averaged"} /\ NoParticipants)
        => pc = "rejected" /\ snapshot = {}

\* a juror who staked, but only from endBlock on
C16_Witness ==
    /\ pc = "rejected"
    /\ snapshot = {}
    /\ startBlock < endBlock
    /\ NoParticipants
    /\ \E e \in Range(events) : e.totalStake > 0

\* C17: an interval with endBlock <= startBlock is rejected with an error
\* before any event is processed: no address is averaged, no averages are
\* returned and no snapshot is produced.
C17_InvalidIntervalRejected ==
    (endBlock <= startBlock /\ pc # "start")
        => /\ pc = "failed"
           /\ trace = <<>>
           /\ stakesByAddress = <<>>
           /\ snapshot = {}

-----------------------------------------------------------------------------
(* The empty tree *)

\* the constructor was given no leaf: an empty list or only null / undefined
NoLeaves == \A i \in 1..Len(leafNodes) : isNil(leafNodes[i])

-----------------------------------------------------------------------------
(* Properties of MerkleRedeem *)

\* a batch that claims a pair already claimed, or one week twice
ClaimsAgain(_claimant, _claims) ==
    \/ \E i \in 1..Len(_claims) : claimed[_claims[i].week][_claimant]
    \/ \E i, j \in 1..Len(_claims) : i # j /\ _claims[i].week = _claims[j].week

\* a transaction that reverts leaves the contract and the token as they were
RevertsWithoutEffect ==
    lastCall'.reverted => UNCHANGED <<weekMerkleRoots, claimed, balances, paid>>

\* C19: whoever calls claimWeek and claimWeeks, and in whatever order: no
\* (week, claimant) pair has more than one claim go through; a pair that is
\* claimed stays claimed and is not paid again; and in every state a claim for
\* a pair already claimed, or a batch with one week twice, reverts, which
\* pays nothing.
C19_ClaimOnce ==
    /\ [](\A c \in Claimants :
             /\ \A w \in Weeks :
                    /\ paid[w][c] <= 1
                    /\ paid[w][c] = 1 <=> claimed[w][c]
                    /\ claimed[w][c] =>
                           \A ticket \in Tickets :
                               claimWeek(c, w, ticket.balance, ticket.merkleProof,
                                         weekMerkleRoots, claimed, balances).reverted
             /\ \A batch \in Batches(c) :
                    ClaimsAgain(c, batch) =>
                        claimWeeks(c, batch, weekMerkleRoots, claimed,
                                   balances).reverted)
    /\ [][/\ \A c \in Claimants, w \in Weeks :
                 claimed[w][c] => claimed'[w][c] /\ paid'[w][c] = paid[w][c]
           /\ RevertsWithoutEffect
          ]_vars

\* a pair claimed and paid once, and a later batch turned down by the
\* require on claimed
C19_Witness ==
    /\ \E c \in Claimants, w \in Weeks :
           /\ claimed[w][c]
           /\ paid[w][c] = 1
           /\ balances[c] > 0
           /\ \A v \in Weeks \ {w} : ~claimed[v][c]
    /\ lastCall = [fn |-> "claimWeeks", reverted |-> TRUE, reason |-> ""]

\* C20: a week's root, once not zero, is the same in every later state; in
\* every state seedAllocations for such a week reverts, with "cannot rewrite
\* merkle root" when the owner calls, which moves no tokens; and a
\* seedAllocations from anyone but the owner reverts.
C20_RootImmutable ==
    /\ [](\A sender \in Senders, w \in Weeks, root \in MerkleRoots,
             amount \in Allocations :
              LET r == seedAllocations(sender, w, root, amount, owner,
                                       weekMerkleRoots, claimed, balances)
              IN  /\ sender # owner => r.reverted
                  /\ weekMerkleRoots[w] # Bytes32Zero =>
                         /\ r.reverted
                         /\ sender = owner =>
                                r.reason = "cannot rewrite merkle root")
    /\ [][/\ \A w \in Weeks :
                 weekMerkleRoots[w] # Bytes32Zero
                     => weekMerkleRoots'[w] = weekMerkleRoots[w]
           /\ RevertsWithoutEffect
          ]_vars

\* a seeded week with its tokens in the contract, and a second seeding of it
\* turned down
C20_Witness ==
    /\ \E w \in Weeks : weekMerkleRoots[w] # Bytes32Zero
    /\ balances[This] > 0
    /\ \A w \in Weeks, c \in Claimants : ~claimed[w][c]
    /\ lastCall = [fn |-> "seedAllocations", reverted |-> TRUE,
                   reason |-> "cannot rewrite merkle root"]

-----------------------------------------------------------------------------
(* Properties of the segments *)

\* a position brought into [lo, hi]
Within(lo, hi, p) == Max(lo, Min(hi, p))

\* the segments of a normalized event list with positions brought into [lo, hi]
SegmentsWithin(lo, hi, evs) ==
    [k \in 1..(Len(evs) - 1) |->
        [weight |-> Within(lo, hi, evs[k + 1].blockNumber)
                        - Within(lo, hi, evs[k].blockNumber),
         value |-> evs[k].totalStake]]

\* C21 as stated: the segments of every address whose step function is built
\* are those of its normalized events with positions clamped to
\* [startBlock, endBlock - 1].
C21_ClampedToEndMinusOne ==
    \A i \in Processed :
        LET o == trace[i].outcome
        IN  (o.built /\ startBlock < endBlock)
                => o.items = SegmentsWithin(startBlock, endBlock - 1, o.normalized)

\* C21: every consecutive pair (e[k], e[k+1]) of an address's normalized events
\* yields one segment with value e[k].totalStake and weight
\* clamp(e[k+1].blockNumber) - clamp(e[k].blockNumber), the clamp being to
\* [startBlock, endBlock]; every weight is non-negative and the weights of any
\* run of segments add up to at most endBlock - startBlock.
C21_SegmentClamping ==
    \A i \in Processed :
        LET o == trace[i].outcome
        IN  o.built
                => /\ startBlock <= endBlock
                   /\ Len(o.normalized) >= 2
                   /\ o.items = SegmentsWithin(startBlock, endBlock, o.normalized)
                   /\ \A k \in 1..Len(o.items) :
                          /\ o.items[k].weight >= 0
                          /\ o.items[k].weight <= endBlock - startBlock
                   /\ getTotalWeight(o.items) <= endBlock - startBlock

\* an address with events before, inside and (the appended one) beyond the
\* interval: three segments that end exactly at endBlock
C21_Witness ==
    /\ pc = "averaged"
    /\ startBlock > 0
    /\ \E i \in Processed :
           LET o == trace[i].outcome
           IN  /\ o.built
               /\ Len(o.normalized) = 3
               /\ o.normalized[1].blockNumber < startBlock
               /\ o.normalized[2].blockNumber > startBlock
               /\ o.normalized[3].blockNumber > endBlock
               /\ o.items[1].weight = o.normalized[2].blockNumber - startBlock
               /\ o.items[2].weight = endBlock - o.normalized[2].blockNumber
               /\ o.items # SegmentsWithin(startBlock, endBlock - 1, o.normalized)

\* C22: for every interval with startBlock <= endBlock and every address with
\* an event before endBlock, the segments handed to getWeightedAverage have a
\* total weight that is not zero and the average is computed without a
\* division by zero.
C22_NoDivisionByZero ==
    \A i \in Processed :
        LET o == trace[i].outcome
        IN  (/\ startBlock <= endBlock
             /\ EventsBefore(trace[i].address, endBlock) # <<>>)
                => /\ o.status # "div0"
                   /\ o.invoked => getTotalWeight(o.items) # 0

-----------------------------------------------------------------------------
(* Properties of the layers *)

\* the position (from 0) at layer k of the ancestor of the leaf at position idx
RECURSIVE AncestorIndex(_, _)
AncestorIndex(idx, k) == IF k = 1 THEN idx ELSE AncestorIndex(idx, k - 1) \div 2

\* whether the node at position idx (from 0) of a layer has a sibling
HasSibling(idx, layer) == idx % 2 = 1 \/ idx + 1 < Len(layer)

\* the sibling of the node at position idx (from 0)
SiblingOf(idx, layer) == IF idx % 2 = 1 THEN layer[idx] ELSE layer[idx + 2]

\* the two children in ascending byte order
Ascending(a, b) == IF BufferCompare(a, b) <= 0 THEN <<a, b>> ELSE <<b, a>>

\* C23: at every layer with an odd number of nodes (above one) the last node is
\* the last node of the next layer, unchanged; every other node of the next
\* layer is the hash of its two children concatenated in ascending byte order;
\* and the proof of a leaf holds, in layer order, exactly the siblings of its
\* ancestors at the layers where the ancestor has one.
C23_CarryUp ==
    /\ \A k \in 1..(Len(layers) - 1) :
           LET cur == layers[k]
               nxt == layers[k + 1]
           IN  /\ Len(nxt) = (Len(cur) + 1) \div 2
               /\ Len(cur) % 2 = 1 => nxt[Len(nxt)] = cur[Len(cur)]
               /\ \A j \in 1..(Len(cur) \div 2) :
                      nxt[j] = keccak256(Ascending(cur[2 * j - 1], cur[2 * j]))
    /\ (pcM = "getProof" /\ ~threw) =>
           LET idx == bufIndexOf(el, elements)
               with == {k \in 1..Len(layers) :
                           HasSibling(AncestorIndex(idx, k), layers[k])}
           IN  \A p \in proof :
                   /\ Len(p) = Cardinality(with)
                   /\ \A n \in 1..Len(p) :
                          \E k \in with :
                              /\ Cardinality({h \in with : h <= k}) = n
                              /\ p[n] = SiblingOf(AncestorIndex(idx, k), layers[k])

\* three leaves: the third is carried up to the second layer, and its proof is
\* the one hash of the other two
C23_Witness ==
    /\ pcM = "getProof"
    /\ ~threw
    /\ Len(elements) = 3
    /\ Len(layers) = 3
    /\ el = elements[3]
    /\ layers[2][2] = elements[3]
    /\ layers[2][1] = keccak256(Ascending(elements[1], elements[2]))
    /\ proof = {<<layers[2][1]>>}

-----------------------------------------------------------------------------
(* Properties of the block search *)

\* the heights of the chain
Heights == 0..getBlockNumber(chain)

\* the blocks at or after / before the date of the last call
AtOrAfter == {h \in Heights : timestampOf(chain, h) >= fetched.referenceTimestamp}

Before == {h \in Heights : timestampOf(chain, h) < fetched.referenceTimestamp}

HeadNotBefore ==
    timestampOf(chain, getBlockNumber(chain)) >= fetched.referenceTimestamp

\* C24: findFirstAfter returns the smallest height whose timestamp is greater
\* than or equal to the date's when the head block is not before the date, and
\* fails when the head block is before the date.
C24_FirstAtOrAfter ==
    fetched.fn = "findFirstAfter" =>
        IF HeadNotBefore
        THEN /\ fetched.status = "returned"
             /\ fetched.height \in AtOrAfter
             /\ \A h \in AtOrAfter : fetched.height <= h
        ELSE fetched.status = "threw"

\* C25: findLastBefore returns the largest height whose timestamp is strictly
\* less than the date's, for every chain that has a block before the date and
\* whose head block is not before the date.
C25_LastBefore ==
    (fetched.fn = "findLastBefore" /\ HeadNotBefore /\ Before # {}) =>
        /\ fetched.status = "returned"
        /\ fetched.height \in Before
        /\ \A h \in Before : h <= fetched.height

-----------------------------------------------------------------------------
(* Properties of the event retrieval *)

\* C26: while getEvents retrieves the batches, the number of queryFilter
\* requests that have not settled never exceeds `concurrency`; the requests go
\* out in the order of the intervals, each interval once.
C26_BoundedConcurrency ==
    epc \in {"running", "returned"} =>
        /\ Cardinality(outstanding) <= concurrency
        /\ outstanding \subseteq 1..requested
        /\ requested <= Len(blockIntervals)

\* more intervals than the limit: the limit is reached and an interval waits
C26_Witness ==
    /\ epc = "running"
    /\ concurrency >= 2
    /\ Len(blockIntervals) > concurrency + 1
    /\ Cardinality(outstanding) = concurrency
    /\ requested > concurrency
    /\ requested < Len(blockIntervals)

-----------------------------------------------------------------------------
(* Properties of the block cache *)

\* the provider.getBlock requests made for a height
RequestsFor(blockHeight) ==
    {id \in 1..Len(requests) : requests[id].blockHeight = blockHeight}

\* C27: a getBlock call returns the block's timestamp, also when both caches
\* missed; and once a call for a height has returned, no provider request is
\* made for that height any more and its hot cache entry stays the one it is.
C27_ReadThroughCache ==
    /\ [](\A c \in Callers :
              callers[c].pc = "returned" =>
                  callers[c].data
                      = [timestamp |-> ProviderBlock(callers[c].blockHeight).timestamp])
    /\ [][\A blockHeight \in served :
              /\ hotCache'[blockHeight] = hotCache[blockHeight]
              /\ Len(requests') = Len(requests)
                     \/ requests'[Len(requests')].blockHeight # blockHeight
         ]_vars

\* C28: at most one provider.getBlock request is made for a height, however the
\* concurrent getBlock calls for it interleave.
C28_OneRequestPerBlock ==
    \A blockHeight \in BlockHeights : Cardinality(RequestsFor(blockHeight)) <= 1

-----------------------------------------------------------------------------
(* Properties of the distribution *)

\* the snapshot a week is seeded with, if any
ManifestsOf(w) == {m \in Manifests : m.merkleTree.root = weekMerkleRoots[w]}

\* the value a snapshot holds for a claimant, 0 when it has no claim
ValueIn(m, _claimant) ==
    SumSeq([i \in 1..Len(ClaimsOf(m)) |->
               IF ClaimsOf(m)[i].address = _claimant THEN ClaimsOf(m)[i].value
               ELSE 0])

\* what the claimants marked as claimed for week w are due by the snapshot
DueToClaimed(w, m) ==
    SumSeq([c \in 1..Cardinality(Claimants) |->
               IF claimed[w][c] THEN ValueIn(m, c) ELSE 0])

\* C29: for a week seeded with a snapshot's root, only the snapshot's own
\* (claimant, value) pairs verify; the tokens disbursed for the week are the
\* values of the claimants marked as claimed, each paid once; and their total
\* never exceeds the snapshot's droppedAmount.
C29_Solvency ==
    \A w \in Weeks : \A m \in ManifestsOf(w) :
        /\ \A c \in Claimants, t \in Tickets :
               verifyClaim(c, w, t.balance, t.merkleProof, weekMerkleRoots)
                   => t \in {[balance |-> ClaimsOf(m)[i].value,
                              merkleProof |-> ClaimsOf(m)[i].proof] :
                                 i \in {k \in 1..Len(ClaimsOf(m)) :
                                            ClaimsOf(m)[k].address = c}}
        /\ \A c \in Claimants : paid[w][c] <= 1
        /\ disbursed[w] = DueToClaimed(w, m)
        /\ disbursed[w] <= m.droppedAmount

\* the bound alone
C29_WithinAllocation ==
    \A w \in Weeks : \A m \in ManifestsOf(w) : disbursed[w] <= m.droppedAmount

\* a week seeded with a snapshot's root and its droppedAmount, the other week
\* seeded with tokens as well, and every claimant of the week paid: all of the
\* week's droppedAmount is disbursed while the contract still holds tokens
C29_Witness ==
    \E w \in Weeks : \E m \in ManifestsOf(w) :
        /\ m.droppedAmount = 3
        /\ \A c \in Claimants : claimed[w][c] /\ paid[w][c] = 1
        /\ disbursed[w] = m.droppedAmount
        /\ balances[This] > 0
        /\ balances[1] = 2
        /\ balances[2] = 1

-----------------------------------------------------------------------------
(* Properties of the RecurrentMerkledrop lifecycle *)

ClaimCalls == {"makeClaim", "batchMakeClaims"}

\* claims are open at the time of the last transaction
ClaimsOpen == dropCall.timestamp < claimableUntil

\* the claim half: a claim goes through only while claims are open
C30_ClaimsOnlyWhileOpen ==
    (dropCall.fn \in ClaimCalls /\ ~dropCall.reverted) => ClaimsOpen

\* the other direction: the owner's finalize goes through once claims are closed
C30_FinalizeAfterExpiry ==
    (dropCall.fn = "finalize" /\ dropCall.byOwner /\ ~ClaimsOpen)
        => ~dropCall.reverted

\* C30: a claim (makeClaim, batchMakeClaims) goes through only while
\* block.timestamp < claimableUntil; a finalize sent while claims can still be
\* made is rejected, the owner's with "Still in progress"; and a finalize goes
\* through only when sent by the owner after the claim period has expired,
\* leaving the contract without tokens and the contract's remaining tokens
\* with the owner.
C30_Lifecycle ==
    /\ (dropCall.fn \in ClaimCalls /\ ~dropCall.reverted) => ClaimsOpen
    /\ (dropCall.fn = "finalize" /\ ClaimsOpen)
           => /\ dropCall.reverted
              /\ dropCall.byOwner => dropCall.reason = "Still in progress"
    /\ (dropCall.fn = "finalize" /\ ~dropCall.reverted)
           => /\ dropCall.byOwner
              /\ ~ClaimsOpen
              /\ pnk[This] = 0
              /\ pnk[Deployer] >= dropCall.remaining

=============================================================================
